---- MODULE Spec2Model ----
(***************************************************************************)
(* Claude Code provider (src/ai-providers/claude-code.js): command         *)
(* resolution (parameter > environment > RC file > auto-detection) and the *)
(* command executor (temp file, spawn, timeout, cleanup).                  *)
(*                                                                         *)
(* JavaScript strings are TLA+ strings; a character is a string of length  *)
(* one, read with SubSeq.  JavaScript arrays of strings are sequences of   *)
(* strings.                                                                *)
(***************************************************************************)
EXTENDS Integers, Sequences, FiniteSets, TLC

\* JavaScript null / undefined / false where a string is expected otherwise.
Null == "<null>"
Undefined == "<undefined>"
False == "<false>"

\* JavaScript truthiness of a string-or-null value.
Truthy(v) == v # Null /\ v # Undefined /\ v # False /\ v # ""

CharAt(s, i) == SubSeq(s, i, i)

\* obj[k] of a JavaScript object: undefined for a missing key.
Lookup(obj, k) == IF k \in DOMAIN obj THEN obj[k] ELSE Undefined

\* Array.prototype.join(' ')
RECURSIVE joinFrom(_, _)
joinFrom(parts, k) ==
    IF k > Len(parts) THEN ""
    ELSE IF k = Len(parts) THEN parts[k]
    ELSE parts[k] \o " " \o joinFrom(parts, k + 1)
joinAll(parts) == joinFrom(parts, 1)
JoinSpace(parts) == CHOOSE r \in {joinAll(p) : p \in {parts}} : TRUE

\* Array.prototype.includes
Includes(arr, x) == \E i \in 1..Len(arr) : arr[i] = x

\* String.prototype.includes
Contains(s, sub) ==
    \E i \in 1..(Len(s) - Len(sub) + 1) : SubSeq(s, i, i + Len(sub) - 1) = sub

\* String.prototype.startsWith / endsWith
StartsWith(s, p) == Len(s) >= Len(p) /\ SubSeq(s, 1, Len(p)) = p
EndsWith(s, p) == Len(s) >= Len(p) /\ SubSeq(s, Len(s) - Len(p) + 1, Len(s)) = p

\* String.prototype.trim
IsSpace(c) == c \in {" ", "\n", "\t", "\r"}
trimmed(s) ==
    LET keep == {k \in 1..Len(s) : ~IsSpace(CharAt(s, k))} IN
    IF keep = {} THEN ""
    ELSE SubSeq(s, CHOOSE k \in keep : \A j \in keep : k <= j,
                   CHOOSE k \in keep : \A j \in keep : k >= j)
Trim(s) == CHOOSE r \in {trimmed(v) : v \in {s}} : TRUE

\* String.prototype.toLowerCase, on the letters the inputs use.
UpperLetters == "ABCDEFGHIJKLMNOPQRSTUVWXYZ"
LowerLetters == "abcdefghijklmnopqrstuvwxyz"
ToLowerChar(c) ==
    IF \E i \in 1..Len(UpperLetters) : CharAt(UpperLetters, i) = c
    THEN CharAt(LowerLetters, CHOOSE i \in 1..Len(UpperLetters) : CharAt(UpperLetters, i) = c)
    ELSE c
RECURSIVE lowerRange(_, _, _)
lowerRange(s, lo, hi) ==
    IF lo > hi THEN ""
    ELSE IF lo = hi THEN ToLowerChar(CharAt(s, lo))
    ELSE LET mid == (lo + hi) \div 2 IN
         lowerRange(s, lo, mid) \o lowerRange(s, mid + 1, hi)
ToLowerCase(s) == CHOOSE r \in {lowerRange(v, 1, Len(v)) : v \in {s}} : TRUE

(***************************************************************************)
(* parseCommand: the command-line tokenizer.                               *)
(***************************************************************************)
\* Variant: a backslash escapes whatever character follows it.
parseStepEscapeAny(st, command, i) ==
    LET char == CharAt(command, i) IN
    IF st.escapeNext
    THEN [st EXCEPT !.current = @ \o char, !.escapeNext = FALSE]
    ELSE IF char = "\\"
    THEN IF i + 1 <= Len(command)
         THEN [st EXCEPT !.escapeNext = TRUE]
         ELSE [st EXCEPT !.current = @ \o char]
    ELSE IF char \in {"\"", "'"} /\ (st.quoteChar = Null \/ char = st.quoteChar)
    THEN [st EXCEPT !.quoteChar = IF @ = Null THEN char ELSE Null]
    ELSE IF char = " " /\ st.quoteChar = Null
    THEN IF Len(st.current) > 0
         THEN [st EXCEPT !.parts = Append(@, st.current), !.current = ""]
         ELSE st
    ELSE [st EXCEPT !.current = @ \o char]

\* One iteration of the scan loop on character i.  st holds the loop's
\* variables; quoteChar = Null stands for inQuote = false.
parseStep(st, command, i) ==
    LET char == CharAt(command, i) IN
    IF st.escapeNext
    THEN [st EXCEPT !.current = @ \o char, !.escapeNext = FALSE]
    ELSE IF char = "\\"
    THEN IF i + 1 <= Len(command) /\ CharAt(command, i + 1) \in {"\"", "'", "\\"}
         THEN [st EXCEPT !.escapeNext = TRUE]
         ELSE [st EXCEPT !.current = @ \o char]
    ELSE IF char \in {"\"", "'"} /\ (st.quoteChar = Null \/ char = st.quoteChar)
    THEN [st EXCEPT !.quoteChar = IF @ = Null THEN char ELSE Null]
    ELSE IF char = " " /\ st.quoteChar = Null
    THEN IF Len(st.current) > 0
         THEN [st EXCEPT !.parts = Append(@, st.current), !.current = ""]
         ELSE st
    ELSE [st EXCEPT !.current = @ \o char]

\* The loop over characters lo..hi, from the loop variables st.  The range
\* is run as two halves in order: first lo..mid, then mid+1..hi from the
\* variables the first half ended with.
RECURSIVE parseScan(_, _, _, _)
parseScan(command, lo, hi, st) ==
    IF lo > hi THEN st
    ELSE IF lo = hi THEN parseStep(st, command, lo)
    ELSE LET mid == (lo + hi) \div 2 IN
         CHOOSE r \in {parseScan(command, mid + 1, hi, half) :
                          half \in {parseScan(command, lo, mid, st)}} : TRUE

parseParts(command) ==
    LET end == parseScan(command, 1, Len(command),
                   [parts |-> <<>>, current |-> "", quoteChar |-> Null,
                    escapeNext |-> FALSE])
    IN IF Len(end.current) > 0 THEN Append(end.parts, end.current) ELSE end.parts

\* Variant: the arguments are given back last first.
splitPartsReversed(parts) ==
    [executable |-> IF parts = <<>> THEN "" ELSE parts[1],
     args |-> IF parts = <<>> THEN <<>>
              ELSE [k \in 1..(Len(parts) - 1) |-> parts[Len(parts) + 1 - k]]]

\* parts[0] || '' and parts.slice(1)
splitParts(parts) ==
    [executable |-> IF parts = <<>> THEN "" ELSE parts[1],
     args |-> IF parts = <<>> THEN <<>> ELSE Tail(parts)]

\* The singleton sets hold the value of the argument and of parts.
parseCommand(command) ==
    CHOOSE r \in {splitParts(parts) : parts \in {parseParts(c) : c \in {command}}} : TRUE

(***************************************************************************)
(* clauderc-parser.js: unquote and applyAliases.  An aliases object is a   *)
(* function from alias names to expansion strings.                         *)
(***************************************************************************)
unquote(str) ==
    IF str = "" THEN str
    ELSE IF (StartsWith(str, "\"") /\ EndsWith(str, "\""))
            \/ (StartsWith(str, "'") /\ EndsWith(str, "'"))
    THEN SubSeq(str, 2, Len(str) - 1)
    ELSE str

\* One iteration of the splitting loop of applyAliases: quote characters
\* stay in the part.
aliasStep(st, command, i) ==
    LET char == CharAt(command, i) IN
    IF char \in {"\"", "'"} /\ (st.quoteChar = Null \/ char = st.quoteChar)
    THEN [st EXCEPT !.quoteChar = IF @ = Null THEN char ELSE Null,
                    !.current = @ \o char]
    ELSE IF char = " " /\ st.quoteChar = Null
    THEN IF st.current # ""
         THEN [st EXCEPT !.parts = Append(@, st.current), !.current = ""]
         ELSE st
    ELSE [st EXCEPT !.current = @ \o char]

\* The loop over characters lo..hi, run as two halves in order.
RECURSIVE aliasSplit(_, _, _, _)
aliasSplit(command, lo, hi, st) ==
    IF lo > hi THEN st
    ELSE IF lo = hi THEN aliasStep(st, command, lo)
    ELSE LET mid == (lo + hi) \div 2 IN
         CHOOSE r \in {aliasSplit(command, mid + 1, hi, half) :
                          half \in {aliasSplit(command, lo, mid, st)}} : TRUE

aliasParts(command) ==
    LET end == aliasSplit(command, 1, Len(command),
                   [parts |-> <<>>, current |-> "", quoteChar |-> Null])
    IN IF end.current # "" THEN Append(end.parts, end.current) ELSE end.parts

\* parts.map(...): a part whose unquoted text is an alias name becomes the
\* alias's value.
expandParts(parts, aliases) ==
    [k \in 1..Len(parts) |->
        IF Truthy(Lookup(aliases, unquote(parts[k])))
        THEN aliases[unquote(parts[k])]
        ELSE parts[k]]

applyAliases(command, aliases) ==
    IF DOMAIN aliases = {} THEN command
    ELSE CHOOSE r \in {JoinSpace(expandParts(parts, aliases)) :
                          parts \in {aliasParts(c) : c \in {command}}} : TRUE

(***************************************************************************)
(* resolveModelAlias: built-in short names.                                *)
(***************************************************************************)
resolveModelAlias(modelName) ==
    IF ~Truthy(modelName) THEN Null
    ELSE LET lowerName == ToLowerCase(modelName) IN
         IF lowerName = "opus" THEN "claude-opus-4-20250514"
         ELSE IF lowerName = "sonnet" THEN "claude-sonnet-4-20250514"
         ELSE IF lowerName = "haiku" THEN "claude-3-haiku-20240307"
         ELSE modelName

(***************************************************************************)
(* State.                                                                  *)
(***************************************************************************)
VARIABLES
    env,              \* process.env: variable name -> string, or Undefined
    rcFile,           \* what loadClaudeRC() returns for the files on disk
    sys,              \* platform, `which claude`, existing and executable paths
    detectedCommand,  \* this._detectedCommand
    probes,           \* how often this instance ran the PATH lookup and path walk
    rcConfig,         \* this._rcConfig
    rcConfigLoaded,   \* this._rcConfigLoaded
    last,             \* the last resolver call made in the current environment
    now,              \* Date.now(), in milliseconds
    files,            \* the temp directory: path -> content
    calls,            \* the executeClaudeCode invocations, in call order
    crashed           \* the Node process died of an uncaught exception

execVars == <<now, files, calls, crashed>>
vars == <<env, rcFile, sys, detectedCommand, probes, rcConfig, rcConfigLoaded, last,
          now, files, calls, crashed>>

NoFile == [none |-> "file"]       \* loadClaudeRC() returned null
NoConfig == [none |-> "config"]   \* this._rcConfig is null
NoCommand == [none |-> "command"] \* getClaudeCommandParsed() returned null

HomeDir == "/home/user"

MaxProbes == 2

(***************************************************************************)
(* clauderc-parser.js: getEffectiveConfig; claude-code.js: getRCConfig.    *)
(***************************************************************************)
getEffectiveConfig(rcData, e) ==
    [command |-> IF Truthy(e["CLAUDE_CODE_COMMAND"]) THEN e["CLAUDE_CODE_COMMAND"]
                 ELSE IF Truthy(Lookup(rcData.variables, "command"))
                 THEN rcData.variables["command"] ELSE Null,
     model |-> IF Truthy(e["CLAUDE_CODE_MODEL"]) THEN e["CLAUDE_CODE_MODEL"]
               ELSE IF Truthy(Lookup(rcData.variables, "model"))
               THEN rcData.variables["model"] ELSE Null,
     aliases |-> rcData.aliases,
     environment |-> rcData.exports]

\* The only RC file on disk cannot be read: readFileSync throws.
RCUnreadable == [none |-> "readable file"]

\* loadClaudeRC(): the first RC file that exists, parsed; NoFile when none
\* does, and when reading the one that does throws (the catch logs a warning
\* and the loop goes on to paths that do not exist).
loadClaudeRC == IF rcFile = RCUnreadable THEN NoFile ELSE rcFile

\* Variant: every call loads the RC file again.
getRCConfigReload(e) ==
    LET rcData == loadClaudeRC IN
    IF rcData = NoFile THEN NoConfig
    ELSE LET c == getEffectiveConfig(rcData, e) IN
         [command |-> c.command, model |-> c.model, aliases |-> c.aliases,
          environment |-> c.environment, rawAliases |-> rcData.aliases]

\* The value getRCConfig() returns, which is also this._rcConfig after the call.
getRCConfig(e) ==
    IF rcConfigLoaded THEN rcConfig
    ELSE LET rcData == loadClaudeRC IN
         IF rcData = NoFile THEN NoConfig
         ELSE LET c == getEffectiveConfig(rcData, e) IN
              [command |-> c.command, model |-> c.model, aliases |-> c.aliases,
               environment |-> c.environment, rawAliases |-> rcData.aliases]

(***************************************************************************)
(* detectClaudeCommand.                                                    *)
(***************************************************************************)
commonPaths ==
    IF sys.platform = "darwin"
    THEN << "/Applications/Claude.app/Contents/MacOS/claude",
            "/usr/local/bin/claude",
            HomeDir \o "/.claude/local/claude",
            HomeDir \o "/.npm-global/bin/claude",
            "/usr/local/lib/node_modules/@anthropic-ai/claude-code/dist/claude.js" >>
    ELSE << "/usr/bin/claude",
            HomeDir \o "/.claude/local/claude",
            HomeDir \o "/.npm-global/bin/claude",
            "/usr/lib/node_modules/@anthropic-ai/claude-code/dist/claude.js" >>

existsSync(path) == path \in sys.exists
\* Variant: the check never throws.
accessSyncAlways(path) == TRUE
\* accessSync(path, F_OK | X_OK) returns (TRUE) or throws (FALSE).
accessSync(path) == path \in sys.exists /\ path \in sys.executable

\* The PATH lookup and the walk over commonPaths: the new this._detectedCommand.
probeSystem ==
    IF Truthy(sys.which) /\ existsSync(sys.which) THEN sys.which
    ELSE LET hits == {k \in 1..Len(commonPaths) :
                         existsSync(commonPaths[k]) /\ accessSync(commonPaths[k])}
         IN IF hits = {} THEN False
            ELSE commonPaths[CHOOSE k \in hits : \A j \in hits : k <= j]

\* Variant: every call probes the system again.
detectStepReprobe == [probed |-> TRUE, memo |-> probeSystem]

\* One call of detectClaudeCommand(): whether it probes the system, and
\* this._detectedCommand after it.
detectStep ==
    IF detectedCommand # Undefined
    THEN [probed |-> FALSE, memo |-> detectedCommand]
    ELSE [probed |-> TRUE, memo |-> probeSystem]

\* this._detectedCommand after a call of detectClaudeCommand().
detectedAfter == detectStep.memo

\* The number of probes after a call of detectClaudeCommand(); MaxProbes
\* stands for "MaxProbes or more".
probesAfter ==
    IF detectStep.probed /\ probes < MaxProbes THEN probes + 1 ELSE probes

detectClaudeCommand == IF detectedAfter = False THEN Null ELSE detectedAfter

(***************************************************************************)
(* getClaudeCommand / getClaudeCommandParsed.  params is a record          *)
(* [claudeCodeCommand, modelId]; e is process.env and rc is the value of   *)
(* getRCConfig() at the call.                                              *)
(***************************************************************************)
\* Whether the base command falls through to auto-detection.
usesDetection(params, e, rc) ==
    /\ ~Truthy(params.claudeCodeCommand)
    /\ ~Truthy(e["CLAUDE_CODE_COMMAND"])
    /\ ~(rc # NoConfig /\ Truthy(rc.command))

\* Variant: the environment variable is consulted before the parameter.
baseCommandEnvFirst(params, e, rc) ==
    IF Truthy(e["CLAUDE_CODE_COMMAND"]) THEN e["CLAUDE_CODE_COMMAND"]
    ELSE IF Truthy(params.claudeCodeCommand) THEN params.claudeCodeCommand
    ELSE IF rc # NoConfig /\ Truthy(rc.command) THEN rc.command
    ELSE IF Truthy(detectClaudeCommand) THEN detectClaudeCommand
    ELSE Null

baseCommandOf(params, e, rc) ==
    IF Truthy(params.claudeCodeCommand) THEN params.claudeCodeCommand
    ELSE IF Truthy(e["CLAUDE_CODE_COMMAND"]) THEN e["CLAUDE_CODE_COMMAND"]
    ELSE IF rc # NoConfig /\ Truthy(rc.command) THEN rc.command
    ELSE IF Truthy(detectClaudeCommand) THEN detectClaudeCommand
    ELSE Null

\* Variant: a model id is never looked up among the RC aliases.
modelSelectionNoAlias(params, e, rc) ==
    IF Truthy(params.modelId)
    THEN [modelToUse |-> resolveModelAlias(params.modelId), modelArgs |-> Null]
    ELSE IF Truthy(e["CLAUDE_CODE_MODEL"])
    THEN [modelToUse |-> resolveModelAlias(e["CLAUDE_CODE_MODEL"]), modelArgs |-> Null]
    ELSE IF rc # NoConfig /\ Truthy(rc.model)
    THEN [modelToUse |-> resolveModelAlias(rc.model), modelArgs |-> Null]
    ELSE [modelToUse |-> Null, modelArgs |-> Null]

\* modelToUse and modelArgs.
modelSelection(params, e, rc) ==
    IF Truthy(params.modelId)
    THEN IF rc # NoConfig /\ Truthy(Lookup(rc.rawAliases, params.modelId))
         THEN [modelToUse |-> Null, modelArgs |-> rc.rawAliases[params.modelId]]
         ELSE [modelToUse |-> resolveModelAlias(params.modelId), modelArgs |-> Null]
    ELSE IF Truthy(e["CLAUDE_CODE_MODEL"])
    THEN [modelToUse |-> resolveModelAlias(e["CLAUDE_CODE_MODEL"]), modelArgs |-> Null]
    ELSE IF rc # NoConfig /\ Truthy(rc.model)
    THEN [modelToUse |-> resolveModelAlias(rc.model), modelArgs |-> Null]
    ELSE [modelToUse |-> Null, modelArgs |-> Null]

hasModelFlag(args) == \E index \in 1..Len(args) : args[index] = "--model" /\ index < Len(args)

\* The base command after RC aliases, parsed.
parsedBase(baseCommand, rc) ==
    parseCommand(IF rc # NoConfig THEN applyAliases(baseCommand, rc.rawAliases)
                 ELSE baseCommand)

\* finalArgs.
finalArgsOf(args, sel) ==
    IF Truthy(sel.modelArgs)
    THEN args \o parseCommand("dummy " \o sel.modelArgs).args
    ELSE IF Truthy(sel.modelToUse) /\ ~hasModelFlag(args)
    THEN args \o <<"--model", sel.modelToUse>>
    ELSE args

\* Variant: a bare "claude" is assumed when no source names a command.
getClaudeCommandParsedDefault(params, e, rc) ==
    LET baseCommand == IF Truthy(baseCommandOf(params, e, rc))
                       THEN baseCommandOf(params, e, rc) ELSE "claude"
        p == parsedBase(baseCommand, rc)
    IN [executable |-> p.executable,
        args |-> finalArgsOf(p.args, modelSelection(params, e, rc))]

getClaudeCommandParsed(params, e, rc) ==
    LET baseCommand == baseCommandOf(params, e, rc) IN
    IF ~Truthy(baseCommand) THEN NoCommand
    ELSE LET p == parsedBase(baseCommand, rc) IN
         [executable |-> p.executable,
          args |-> finalArgsOf(p.args, modelSelection(params, e, rc))]

getClaudeCommand(params, e, rc) ==
    LET baseCommand == baseCommandOf(params, e, rc) IN
    IF ~Truthy(baseCommand) THEN Null
    ELSE LET p == parsedBase(baseCommand, rc)
             finalArgs == finalArgsOf(p.args, modelSelection(params, e, rc))
         IN p.executable \o (IF Len(finalArgs) > 0 THEN " " \o JoinSpace(finalArgs) ELSE "")

\* Variant: availability is reported without resolving anything.
isAvailableAlways(params, e, rc) == TRUE

isAvailable(params, e, rc) == getClaudeCommand(params, e, rc) # Null

(***************************************************************************)
(* executeClaudeCode: environment merge, file-reference mode, print flag,  *)
(* messages and the close handler's verdict.                               *)
(***************************************************************************)
\* for (const [key, value] of Object.entries(rcConfig.environment))
\*     if (!process.env[key]) process.env[key] = value;
mergeEnvironment(e, rc) ==
    IF rc = NoConfig THEN e
    ELSE [key \in DOMAIN e \cup DOMAIN rc.environment |->
             IF key \in DOMAIN rc.environment /\ ~Truthy(Lookup(e, key))
             THEN rc.environment[key]
             ELSE e[key]]

NotFoundMessage ==
    "Claude Code not found. Please install Claude Code:\n"
    \o "  - Download from: https://claude.ai/code\n"
    \o "  - Install via npm: npm install -g @anthropic-ai/claude-code\n"
    \o "  - Or set CLAUDE_CODE_COMMAND environment variable\n"
    \o "  - Or create a .clauderc file with your configuration\n"
    \o "  - Example: export CLAUDE_CODE_COMMAND=\"/path/to/claude\""

NotExecutableMessage(claudePath) ==
    "Claude Code not found or not executable at: " \o claudePath
    \o ". Please check your CLAUDE_CODE_COMMAND environment variable."

TimeoutMessage == "Claude Code timed out after 5 minutes"

\* String.prototype.indexOf(sub, from), 1-based; 0 when sub does not occur.
IndexOf(s, sub, from) ==
    LET hits == {i \in from..(Len(s) - Len(sub) + 1) :
                    SubSeq(s, i, i + Len(sub) - 1) = sub}
    IN IF hits = {} THEN 0 ELSE CHOOSE i \in hits : \A j \in hits : i <= j

\* The regular expression's \s and the characters '.' does not match.
IsRegexSpace(c) == c \in {" ", "\t", "\n", "\r", "\f"}
IsLineTerminator(c) == c \in {"\n", "\r"}

FilePathTag == "FILE_PATH:"

\* /FILE_PATH:\s*(.+?)(?:\n|$)/ tried at an occurrence of the tag at index p:
\* the captured group, or Null when the pattern does not match there.  \s* is
\* greedy (the latest group start q wins), .+? is lazy (the earliest end wins).
filePathGroupAt(input, p) ==
    LET a == p + Len(FilePathTag)
        fits(q, end) ==
            /\ \A j \in a..(q - 1) : IsRegexSpace(CharAt(input, j))
            /\ \A j \in q..end : ~IsLineTerminator(CharAt(input, j))
            /\ (end = Len(input) \/ CharAt(input, end + 1) = "\n")
        starts == {q \in a..Len(input) : \E end \in q..Len(input) : fits(q, end)}
    IN IF starts = {} THEN Null
       ELSE LET q == CHOOSE x \in starts : \A y \in starts : x >= y
                ends == {end \in q..Len(input) : fits(q, end)}
            IN SubSeq(input, q, CHOOSE x \in ends : \A y \in ends : x <= y)

\* input.match(/FILE_PATH:\s*(.+?)(?:\n|$)/)[1], or Null without a match.
filePathMatch(input) ==
    LET occurrences == {p \in 1..(Len(input) - Len(FilePathTag) + 1) :
                           /\ SubSeq(input, p, p + Len(FilePathTag) - 1) = FilePathTag
                           /\ filePathGroupAt(input, p) # Null}
    IN IF occurrences = {} THEN Null
       ELSE filePathGroupAt(input, CHOOSE p \in occurrences : \A r \in occurrences : p <= r)

PRDHeader == "Product Requirements Document (PRD) Content:"

\* input.replace(/Product Requirements Document \(PRD\) Content:[\s\S]*?
\* (?=\n\nIMPORTANT:|$)/, header + reference to filePath).  filePath is
\* inserted literally: the paths of the modelled prompts contain no '$'.
replacePRD(input, filePath) ==
    LET h == IndexOf(input, PRDHeader, 1) IN
    IF h = 0 THEN input
    ELSE LET stop == IndexOf(input, "\n\nIMPORTANT:", h + Len(PRDHeader))
             rest == IF stop = 0 THEN "" ELSE SubSeq(input, stop, Len(input))
         IN SubSeq(input, 1, h - 1) \o PRDHeader
            \o "\n<Please read the PRD from this file: " \o filePath \o ">" \o rest

actualInputOf(input, e) ==
    IF Lookup(e, "CLAUDE_CODE_USE_FILE_REFERENCE") = "true" /\ filePathMatch(input) # Null
    THEN CHOOSE r \in {replacePRD(input, Trim(g)) : g \in {filePathMatch(input)}} : TRUE
    ELSE input

\* Variant: only the short form is looked for, and the flag goes last.
withPrintFlagAppended(args) ==
    IF ~Includes(args, "-p") THEN args \o <<"-p">> ELSE args

\* if (!args.includes('-p') && !args.includes('--print')) args.unshift('-p')
withPrintFlag(args) ==
    IF ~Includes(args, "-p") /\ ~Includes(args, "--print") THEN <<"-p">> \o args ELSE args

\* join(tmpdir(), `claude-prompt-${Date.now()}.txt`)
tempFileName(t) == "/tmp/claude-prompt-" \o ToString(t) \o ".txt"

\* setTimeout(..., 5 * 60 * 1000)
TimeoutMs == 5 * 60 * 1000
\* Variant: the timer is due at once.
timerDeadlineNow(startedAt) == startedAt
timerDeadline(startedAt) == startedAt + TimeoutMs

\* A 'close' event carries (code, signal); code is null when a signal ended
\* the child.  An event is a record [code, signal] with signal = Null for a
\* normal exit.
codeIsZero(ev) == ev.signal = Null /\ ev.code = 0
codeText(ev) == IF ev.signal # Null THEN "null" ELSE ToString(ev.code)

\* Variant: exit code 0 always resolves, whatever stderr holds.
closeOutcomeIgnoringStderr(ev, stdout, stderr) ==
    IF ~codeIsZero(ev)
    THEN [status |-> "rejected",
          value |-> "Claude Code error (code " \o codeText(ev) \o "): " \o stderr]
    ELSE [status |-> "resolved", value |-> Trim(stdout)]

\* What the 'close' handler passes to reject or resolve.
closeOutcome(ev, stdout, stderr) ==
    IF ~codeIsZero(ev)
    THEN [status |-> "rejected",
          value |-> "Claude Code error (code " \o codeText(ev) \o "): " \o stderr]
    ELSE IF stderr # "" /\ stdout = ""
    THEN [status |-> "rejected", value |-> "Claude Code error: " \o stderr]
    ELSE [status |-> "resolved", value |-> Trim(stdout)]

\* writeFileSync(tempFile, actualInput, 'utf8')
writeFileSync(fs, path, content) ==
    [f \in DOMAIN fs \cup {path} |-> IF f = path THEN content ELSE fs[f]]

\* Variant: nothing is unlinked.
cleanupSkipped(fs, tempFile, fails) == fs

\* The finally block: unlinkSync(tempFile) inside a try whose catch is empty.
\* fails says whether unlinkSync throws.
cleanup(fs, tempFile, fails) ==
    IF tempFile = Undefined \/ fails \/ tempFile \notin DOMAIN fs THEN fs
    ELSE [f \in DOMAIN fs \ {tempFile} |-> fs[f]]

(***************************************************************************)
(* Inputs and configurations.                                              *)
(***************************************************************************)
EnvKeys == {"CLAUDE_CODE_COMMAND", "CLAUDE_CODE_MODEL",
            "CLAUDE_CODE_USE_FILE_REFERENCE", "CLAUDE_CODE_TIMEOUT"}

CommandOverrides == {Undefined, "\"/my tools/claude\" --model", "\"\""}
ModelIds == {Undefined, "fast", "Sonnet"}
Params == [claudeCodeCommand : CommandOverrides, modelId : ModelIds]

EnvCommandValues == {Undefined, "", "  ", "/opt/claude --model claude-3-5-sonnet-20241022"}
EnvModelValues == {Undefined, "opus"}

\* A project RC file that sets command and model.
RCProject ==
    [variables |-> ("command" :> "/usr/local/bin/claude" @@ "model" :> "haiku"),
     aliases |-> ("fast" :> "--model haiku --allowedTools 'Read,Grep,Glob'"
                  @@ "debug" :> "--verbose"),
     exports |-> ("CLAUDE_CODE_TIMEOUT" :> "300000")]

\* The RC file createDefaultClaudeRC() writes, as parseClaudeRC reads it (the
\* comment after the quiet alias stays in its value; no command variable).
RCDefault ==
    [variables |-> ("model" :> "sonnet"),
     aliases |-> ("opus" :> "--model opus" @@ "sonnet" :> "--model sonnet"
                  @@ "haiku" :> "--model haiku" @@ "fast" :> "--model haiku"
                  @@ "creative" :> "--model opus" @@ "balanced" :> "--model sonnet"
                  @@ "debug" :> "--verbose"
                  @@ "quiet" :> "\"-p\"  # Print mode only"
                  @@ "code" :> "--model sonnet" @@ "docs" :> "--model opus"
                  @@ "quick" :> "--model haiku"
                  @@ "mcp" :> "--mcp-config ~/.claude/mcp.json"
                  @@ "mcp-read" :> "--mcp-config ~/.claude/mcp.json --allowedTools 'Read,Grep,Glob'"),
     exports |-> ("CLAUDE_CODE_TIMEOUT" :> "300000"
                  @@ "CLAUDE_CODE_USE_FILE_REFERENCE" :> "false")]

RCFiles == {NoFile, RCProject, RCDefault}

\* No installation anywhere.
SysNone == [platform |-> "linux", which |-> Null, exists |-> {}, executable |-> {}]
\* macOS: not on PATH, installed under /usr/local/bin; /opt/claude lacks the x bit.
SysMac ==
    [platform |-> "darwin", which |-> Null,
     exists |-> {"/usr/local/bin/claude", "/opt/claude"},
     executable |-> {"/usr/local/bin/claude"}]
\* Linux: on PATH.
SysLinux ==
    [platform |-> "linux", which |-> "/usr/bin/claude",
     exists |-> {"/usr/bin/claude", "/usr/local/bin/claude", "/opt/claude"},
     executable |-> {"/usr/bin/claude", "/usr/local/bin/claude", "/opt/claude"}]

Systems == {SysNone, SysMac}

NoCall == [op |-> "none"]

\* Executor inputs.
MaxCalls == 1
MaxChunks == 1
TickMs == 150000
MaxNow == 450000

PRDPrompt ==
    "Parse the PRD.\nFILE_PATH: /work/prd.txt\n"
    \o "Product Requirements Document (PRD) Content:\nBuild a todo app.\n\n"
    \o "IMPORTANT: answer in JSON"
Inputs == {"Say hi", PRDPrompt}

ExecOptions == {[claudeCodeCommand |-> Undefined, modelId |-> Undefined],
                [claudeCodeCommand |-> "/opt/claude --print", modelId |-> "fast"]}

\* An RC file that turns file-reference mode on.
RCFileRef ==
    [variables |-> ("command" :> "/usr/local/bin/claude"),
     aliases |-> <<>>,
     exports |-> ("CLAUDE_CODE_USE_FILE_REFERENCE" :> "true")]
ExecRCFiles == {NoFile, RCFileRef, RCDefault}
ExecSystems == {SysNone, SysMac, SysLinux}

\* CLAUDE_CODE_USE_FILE_REFERENCE before the first call: unset, set to the
\* empty string, set to "false".
ExecEnvValues == {Undefined, "", "false"}

StdoutChunks == {" ok\n", " "}
StderrChunks == {"warn"}
CloseEvents == {[code |-> 0, signal |-> Null], [code |-> 1, signal |-> Null],
                [code |-> 0, signal |-> "SIGTERM"]}
SpawnError(claudePath) == "spawn " \o claudePath \o " EAGAIN"

\* Nothing has been executed yet.
InitExecutor ==
    /\ now = 0
    /\ files = <<>>
    /\ calls = <<>>
    /\ crashed = FALSE

\* A provider instance right after its constructor ran.
InitProvider ==
    /\ detectedCommand = Undefined
    /\ probes = 0
    /\ rcConfig = NoConfig
    /\ rcConfigLoaded = FALSE

Init ==
    /\ \E c \in EnvCommandValues, m \in EnvModelValues :
          env = [k \in EnvKeys |->
                    IF k = "CLAUDE_CODE_COMMAND" THEN c
                    ELSE IF k = "CLAUDE_CODE_MODEL" THEN m ELSE Undefined]
    /\ rcFile \in RCFiles
    /\ sys \in Systems
    /\ InitProvider
    /\ last = NoCall
    /\ InitExecutor

(***************************************************************************)
(* Resolver operations.                                                    *)
(***************************************************************************)
\* The instance fields after a resolution: the RC config is loaded, and the
\* detection result is cached when the resolution fell through to it.
ResolveUpdates(params, e) ==
    /\ rcConfigLoaded' = TRUE
    /\ rcConfig' = getRCConfig(e)
    /\ detectedCommand' = IF usesDetection(params, e, getRCConfig(e))
                          THEN detectedAfter ELSE detectedCommand
    /\ probes' = IF usesDetection(params, e, getRCConfig(e)) THEN probesAfter ELSE probes

Fresh == ~rcConfigLoaded /\ detectedCommand = Undefined

GetClaudeCommand(params) ==
    /\ ResolveUpdates(params, env)
    /\ last' = [op |-> "getClaudeCommand", params |-> params, fresh |-> Fresh,
                base |-> baseCommandOf(params, env, getRCConfig(env)),
                result |-> getClaudeCommand(params, env, getRCConfig(env))]
    /\ UNCHANGED <<env, rcFile, sys, execVars>>

GetClaudeCommandParsed(params) ==
    /\ ResolveUpdates(params, env)
    /\ last' = [op |-> "getClaudeCommandParsed", params |-> params, fresh |-> Fresh,
                base |-> baseCommandOf(params, env, getRCConfig(env)),
                result |-> getClaudeCommandParsed(params, env, getRCConfig(env))]
    /\ UNCHANGED <<env, rcFile, sys, execVars>>

IsAvailable(params) ==
    /\ ResolveUpdates(params, env)
    /\ last' = [op |-> "isAvailable", params |-> params, fresh |-> Fresh,
                base |-> baseCommandOf(params, env, getRCConfig(env)),
                result |-> isAvailable(params, env, getRCConfig(env))]
    /\ UNCHANGED <<env, rcFile, sys, execVars>>

\* The host process sets or deletes CLAUDE_CODE_COMMAND or CLAUDE_CODE_MODEL.
\* The record of the last call is dropped: it describes a call made in the
\* environment as it is now.
SetEnv(key, value) ==
    /\ env[key] # value
    /\ env' = [env EXCEPT ![key] = value]
    /\ last' = NoCall
    /\ UNCHANGED <<rcFile, sys, detectedCommand, probes, rcConfig, rcConfigLoaded, execVars>>

Next ==
    \/ \E params \in Params : GetClaudeCommand(params)
    \/ \E params \in Params : GetClaudeCommandParsed(params)
    \/ \E params \in Params : IsAvailable(params)
    \/ \E value \in EnvCommandValues : SetEnv("CLAUDE_CODE_COMMAND", value)
    \/ \E value \in EnvModelValues : SetEnv("CLAUDE_CODE_MODEL", value)

Spec == Init /\ [][Next]_vars

(***************************************************************************)
(* Detection over the life of provider instances: the system may change    *)
(* (an installation appears or disappears) and new instances are made.     *)
(***************************************************************************)
DetectSystems == {SysNone, SysMac, SysLinux}
DetectRCFiles == {NoFile, RCDefault}

\* A direct call of detectClaudeCommand().
DetectClaudeCommand ==
    /\ detectedCommand' = detectedAfter
    /\ probes' = probesAfter
    /\ last' = [op |-> "detectClaudeCommand", before |-> detectedCommand,
                probed |-> detectStep.probed, result |-> detectClaudeCommand]
    /\ UNCHANGED <<env, rcFile, sys, rcConfig, rcConfigLoaded, execVars>>

\* Claude Code is installed, removed or moved.  The record of the last call
\* is dropped: it describes a call made on the system as it is now.
SystemChanges(s) ==
    /\ s # sys
    /\ sys' = s
    /\ last' = NoCall
    /\ UNCHANGED <<env, rcFile, detectedCommand, probes, rcConfig, rcConfigLoaded, execVars>>

\* new ClaudeCodeProvider(): the constructor's field values; the old
\* instance is dropped.
NewInstance ==
    /\ detectedCommand' = Undefined
    /\ probes' = 0
    /\ rcConfig' = NoConfig
    /\ rcConfigLoaded' = FALSE
    /\ last' = NoCall
    /\ UNCHANGED <<env, rcFile, sys, execVars>>

InitDetect ==
    /\ env = [k \in EnvKeys |-> Undefined]
    /\ rcFile \in DetectRCFiles
    /\ sys \in DetectSystems
    /\ InitProvider
    /\ last = NoCall
    /\ InitExecutor

NextDetect ==
    \/ DetectClaudeCommand
    \/ \E params \in Params : GetClaudeCommand(params)
    \/ \E s \in DetectSystems : SystemChanges(s)
    \/ NewInstance

SpecDetect == InitDetect /\ [][NextDetect]_vars

(***************************************************************************)
(* executeClaudeCode and the events of the child process, the read stream  *)
(* and the timer.                                                          *)
(***************************************************************************)
NoExit == [none |-> "exit"]

\* An invocation that threw before anything was written or spawned.
thrownCall(input, options, e, parsedCommand, message) ==
    [input |-> input, options |-> options, parsedCommand |-> parsedCommand,
     envBefore |-> env, envAfter |-> e,
     status |-> "rejected", value |-> message, settledBy |-> "throw",
     executable |-> Null, args |-> <<>>,
     tempFile |-> Undefined, content |-> Undefined, unlink |-> "none",
     child |-> "none", killed |-> FALSE, exit |-> NoExit,
     stream |-> "none", stdin |-> Undefined,
     stdout |-> "", stderr |-> "", outChunks |-> 0, errChunks |-> 0,
     timer |-> "none", startedAt |-> now, settledAt |-> now]

\* An invocation as the synchronous part leaves it: file written, child
\* spawned, timer armed, read stream created and piped, promise returned,
\* finally block run.  opened tells whether the stream's open() reached the
\* file before unlinkSync did.
spawnedCall(input, options, e, parsedCommand, tempFile, actualInput, opened, unlinkFails) ==
    [input |-> input, options |-> options, parsedCommand |-> parsedCommand,
     envBefore |-> env, envAfter |-> e,
     status |-> "pending", value |-> Undefined, settledBy |-> "none",
     executable |-> parsedCommand.executable, args |-> withPrintFlag(parsedCommand.args),
     tempFile |-> tempFile, content |-> actualInput,
     unlink |-> IF unlinkFails THEN "failed" ELSE "done",
     child |-> "running", killed |-> FALSE, exit |-> NoExit,
     stream |-> IF opened THEN "open" ELSE "pending", stdin |-> Undefined,
     stdout |-> "", stderr |-> "", outChunks |-> 0, errChunks |-> 0,
     timer |-> "armed", startedAt |-> now, settledAt |-> now]

\* The whole synchronous run of executeClaudeCode(input, options).  The
\* stream's open() runs on another thread or a later tick while the finally
\* block unlinks the file: earlyOpen is the outcome of that race.
executeUpdates(input, options, earlyOpen, unlinkFails, detectedBefore) ==
    /\ LET rc == getRCConfig(env)
           e == mergeEnvironment(env, rc)
           parsedCommand == getClaudeCommandParsed(options, e, rc)
       IN /\ env' = e
          /\ rcConfigLoaded' = TRUE
          /\ rcConfig' = rc
          /\ detectedCommand' = IF detectedBefore \/ usesDetection(options, e, rc)
                                THEN detectedAfter ELSE detectedCommand
          /\ probes' = IF detectedBefore \/ usesDetection(options, e, rc)
                       THEN probesAfter ELSE probes
          /\ IF parsedCommand = NoCommand
             THEN /\ calls' = Append(calls, thrownCall(input, options, e, parsedCommand,
                                                   NotFoundMessage))
                  /\ files' = files
             ELSE IF ~accessSync(parsedCommand.executable)
             THEN /\ calls' = Append(calls, thrownCall(input, options, e, parsedCommand,
                                        NotExecutableMessage(parsedCommand.executable)))
                  /\ files' = files
             ELSE LET tempFile == tempFileName(now)
                      actualInput == actualInputOf(input, e)
                  IN /\ calls' = Append(calls,
                            spawnedCall(input, options, e, parsedCommand, tempFile,
                                        actualInput, earlyOpen, unlinkFails))
                     /\ files' = cleanup(writeFileSync(files, tempFile, actualInput),
                                         tempFile, unlinkFails)

\* A call of executeClaudeCode by the host program.
ExecuteClaudeCode(input, options, earlyOpen, unlinkFails) ==
    /\ ~crashed
    /\ Len(calls) < MaxCalls
    /\ executeUpdates(input, options, earlyOpen, unlinkFails, FALSE)
    /\ last' = NoCall
    /\ UNCHANGED <<rcFile, sys, now, crashed>>

provider == <<env, rcFile, sys, detectedCommand, probes, rcConfig, rcConfigLoaded, last>>

\* The read stream opens the temp file (it is still there).
StreamOpen(i) ==
    /\ ~crashed
    /\ calls[i].stream = "pending"
    /\ calls[i].tempFile \in DOMAIN files
    /\ calls' = [calls EXCEPT ![i].stream = "open"]
    /\ UNCHANGED <<provider, now, files, crashed>>

\* The read stream's open() fails with ENOENT.  The stream has no 'error'
\* listener: the event is an uncaught exception, which ends the process
\* unless the host installed an uncaughtException handler (handled).
StreamError(i, handled) ==
    /\ ~crashed
    /\ calls[i].stream = "pending"
    /\ calls[i].tempFile \notin DOMAIN files
    /\ calls' = [calls EXCEPT ![i].stream = "failed"]
    /\ crashed' = ~handled
    /\ UNCHANGED <<provider, now, files>>

\* The open stream delivers the file's content to the child's stdin and ends it.
StreamPipe(i) ==
    /\ ~crashed
    /\ calls[i].stream = "open"
    /\ calls[i].child = "running"
    /\ calls' = [calls EXCEPT ![i].stream = "done", ![i].stdin = calls[i].content]
    /\ UNCHANGED <<provider, now, files, crashed>>

\* child.stdout.on('data'): stdout += data.toString()
ChildStdout(i, data) ==
    /\ ~crashed
    /\ calls[i].child = "running"
    /\ calls[i].outChunks < MaxChunks
    /\ calls' = [calls EXCEPT ![i].stdout = @ \o data, ![i].outChunks = @ + 1]
    /\ UNCHANGED <<provider, now, files, crashed>>

\* child.stderr.on('data'): stderr += data.toString()
ChildStderr(i, data) ==
    /\ ~crashed
    /\ calls[i].child = "running"
    /\ calls[i].errChunks < MaxChunks
    /\ calls' = [calls EXCEPT ![i].stderr = @ \o data, ![i].errChunks = @ + 1]
    /\ UNCHANGED <<provider, now, files, crashed>>

\* reject/resolve: only the first settlement of a promise takes effect.
settle(call, status, value, by) ==
    IF call.status # "pending" THEN call
    ELSE [call EXCEPT !.status = status, !.value = value,
                      !.settledBy = by, !.settledAt = now]

\* Variant: the close and error handlers leave the timer armed.
keepTimeout(call) == call

clearTimeout(call) == [call EXCEPT !.timer = IF @ = "armed" THEN "cleared" ELSE @]

\* child.on('close', (code) => ...)
ChildClose(i, ev) ==
    /\ ~crashed
    /\ calls[i].child \in {"running", "errored"}
    /\ LET c == clearTimeout([calls[i] EXCEPT !.child = "closed", !.exit = ev])
           outcome == closeOutcome(ev, c.stdout, c.stderr)
       IN calls' = [calls EXCEPT ![i] = settle(c, outcome.status, outcome.value, "close")]
    /\ UNCHANGED <<provider, now, files, crashed>>

\* child.on('error', (error) => ...): the spawn failed or the child could
\* not be signalled.
ChildError(i, error) ==
    /\ ~crashed
    /\ calls[i].child = "running"
    /\ LET c == clearTimeout([calls[i] EXCEPT !.child = "errored"])
       IN calls' = [calls EXCEPT ![i] = settle(c, "rejected", error, "error")]
    /\ UNCHANGED <<provider, now, files, crashed>>

\* The setTimeout callback: child.kill(); reject(new Error(...)).
TimerFire(i) ==
    /\ ~crashed
    /\ calls[i].timer = "armed"
    /\ now >= timerDeadline(calls[i].startedAt)
    /\ LET c == [calls[i] EXCEPT !.timer = "fired", !.killed = TRUE]
       IN calls' = [calls EXCEPT ![i] = settle(c, "rejected", TimeoutMessage, "timeout")]
    /\ UNCHANGED <<provider, now, files, crashed>>

\* Time passes.
Tick ==
    /\ ~crashed
    /\ now + TickMs <= MaxNow
    /\ now' = now + TickMs
    /\ UNCHANGED <<provider, files, calls, crashed>>

NextExec ==
    \/ \E input \in Inputs, options \in ExecOptions, earlyOpen \in BOOLEAN,
          unlinkFails \in BOOLEAN :
          ExecuteClaudeCode(input, options, earlyOpen, unlinkFails)
    \/ \E i \in 1..Len(calls) : StreamOpen(i)
    \/ \E i \in 1..Len(calls), handled \in BOOLEAN : StreamError(i, handled)
    \/ \E i \in 1..Len(calls) : StreamPipe(i)
    \/ \E i \in 1..Len(calls), data \in StdoutChunks : ChildStdout(i, data)
    \/ \E i \in 1..Len(calls), data \in StderrChunks : ChildStderr(i, data)
    \/ \E i \in 1..Len(calls), ev \in CloseEvents : ChildClose(i, ev)
    \/ \E i \in 1..Len(calls) : ChildError(i, SpawnError(calls[i].executable))
    \/ \E i \in 1..Len(calls) : TimerFire(i)
    \/ Tick

InitExec ==
    /\ \E v \in ExecEnvValues :
          env = [k \in EnvKeys |->
                    IF k = "CLAUDE_CODE_USE_FILE_REFERENCE" THEN v ELSE Undefined]
    /\ rcFile \in ExecRCFiles
    /\ sys \in ExecSystems
    /\ InitProvider
    /\ last = NoCall
    /\ InitExecutor

SpecExec == InitExec /\ [][NextExec]_vars

(***************************************************************************)
(* Properties of command resolution (specification Spec).                  *)
(***************************************************************************)
\* The base command read off the four raw sources of a call on a fresh
\* instance: parameter, environment variable, the RC file's command
\* variable, an installation the probe finds.
sourceBase(params, e) ==
    IF Truthy(params.claudeCodeCommand) THEN params.claudeCodeCommand
    ELSE IF Truthy(e["CLAUDE_CODE_COMMAND"]) THEN e["CLAUDE_CODE_COMMAND"]
    ELSE IF rcFile # NoFile /\ Truthy(Lookup(rcFile.variables, "command"))
    THEN rcFile.variables["command"]
    ELSE IF probeSystem # False THEN probeSystem
    ELSE Null

\* C1: on a fresh provider instance getClaudeCommand takes its base command
\* from the highest-priority source that is present (parameter, then
\* environment, then RC file, then auto-detection); it returns null exactly
\* when no source is present, and otherwise a command line that starts with
\* the executable of that base command.
C1_Precedence ==
    (last.op = "getClaudeCommand" /\ last.fresh) =>
        LET expected == sourceBase(last.params, env) IN
        /\ last.base = expected
        /\ IF expected = Null THEN last.result = Null
           ELSE /\ last.result # Null
                /\ StartsWith(last.result, parsedBase(expected, rcConfig).executable)

\* All four sources are present and a fresh instance resolved the command.
C1_Witness ==
    /\ last.op = "getClaudeCommand" /\ last.fresh
    /\ Truthy(last.params.claudeCodeCommand)
    /\ Truthy(env["CLAUDE_CODE_COMMAND"])
    /\ rcFile # NoFile /\ Truthy(Lookup(rcFile.variables, "command"))
    /\ probeSystem # False
    /\ StartsWith(last.result, "/my tools/claude")

\* C8: isAvailable(params) is true exactly when resolution of the same params
\* (as a string and as parsed components) yields a command, and a step that
\* answers it leaves the environment, the files and the child processes as
\* they were.
C8_IsAvailable ==
    [][\A params \in Params :
          (last'.op = "isAvailable" /\ last'.params = params /\ IsAvailable(params)) =>
              /\ last'.result = (getClaudeCommandParsed(params, env, rcConfig') # NoCommand)
              /\ last'.result = (getClaudeCommand(params, env, rcConfig') # Null)
              /\ UNCHANGED <<env, files, calls>>]_vars

\* isAvailable answered false: nothing is configured and nothing is installed.
C8_Witness ==
    /\ last.op = "isAvailable"
    /\ last.result = FALSE
    /\ getClaudeCommandParsed(last.params, env, rcConfig) = NoCommand
    /\ calls = <<>> /\ files = <<>>

\* Number of '--model' tokens in an argument list.
modelFlags(args) == Cardinality({k \in 1..Len(args) : args[k] = "--model"})

\* A resolution had a model to apply.
hasModelToApply(call) ==
    \/ Truthy(call.params.modelId)
    \/ Truthy(env["CLAUDE_CODE_MODEL"])
    \/ (rcConfig # NoConfig /\ Truthy(rcConfig.model))

\* C9 as stated: with a model to apply (an RC alias name included), a base
\* command that carries '--model <value>' gets no further '--model', and a
\* base command whose only '--model' is its last token gets exactly one more
\* '--model' followed by a value.
C9_ModelFlagOnce ==
    (last.op = "getClaudeCommandParsed" /\ last.result # NoCommand /\ hasModelToApply(last)) =>
        LET baseArgs == parsedBase(last.base, rcConfig).args
            args == last.result.args
        IN /\ hasModelFlag(baseArgs) => modelFlags(args) = modelFlags(baseArgs)
           /\ (modelFlags(baseArgs) = 1 /\ baseArgs[Len(baseArgs)] = "--model") =>
                  /\ modelFlags(args) = 2
                  /\ Len(args) >= Len(baseArgs) + 2
                  /\ args[Len(baseArgs) + 1] = "--model"

\* C10: when params.modelId is exactly the name of an RC alias, the resolved
\* args are the base command's args followed by the tokens of the alias's raw
\* value, in order; a '--model <alias name>' pair appears only if the base
\* command or the alias value itself holds it.
C10_AliasExpansion ==
    (/\ last.op = "getClaudeCommandParsed" /\ last.result # NoCommand
     /\ Truthy(last.params.modelId)
     /\ rcConfig # NoConfig /\ Truthy(Lookup(rcConfig.rawAliases, last.params.modelId))) =>
        LET baseArgs == parsedBase(last.base, rcConfig).args
            tokens == parseParts(rcConfig.rawAliases[last.params.modelId])
            args == last.result.args
            pairIn(a) == \E k \in 1..(Len(a) - 1) :
                            a[k] = "--model" /\ a[k + 1] = last.params.modelId
        IN /\ args = baseArgs \o tokens
           /\ pairIn(args) => (pairIn(baseArgs) \/ pairIn(tokens))

\* modelId "fast" named an alias whose value holds several tokens.
C10_Witness ==
    /\ last.op = "getClaudeCommandParsed" /\ last.result # NoCommand
    /\ last.params.modelId = "fast"
    /\ rcConfig # NoConfig /\ Truthy(Lookup(rcConfig.rawAliases, "fast"))
    /\ Len(parseParts(rcConfig.rawAliases["fast"])) = 4
    /\ Len(last.result.args) >= 4

(***************************************************************************)
(* Properties of the executor (specification SpecExec).                    *)
(***************************************************************************)
Calls == 1..Len(calls)

\* The child of a call has closed, errored or been timed out.
childFinished(c) == c.child \in {"closed", "errored"} \/ c.timer = "fired"

\* C2 as stated: the temp file is not deleted before the child has closed,
\* errored or been timed out, and a stream that has ended delivered the whole
\* prompt to the child's standard input.
C2_DeleteLast ==
    \A i \in Calls :
        /\ calls[i].unlink = "done" => childFinished(calls[i])
        /\ calls[i].stream \in {"done", "failed"} => calls[i].stdin = calls[i].content

\* C3: once the promise of a call that wrote a temp file has settled, the
\* delete has been attempted and, unless a delete of that path failed, the
\* file is gone; the outcome is the one the settling event alone determines,
\* whether or not the delete failed.
C3_TempFileRemoved ==
    \A i \in Calls :
        (calls[i].status # "pending" /\ calls[i].tempFile # Undefined) =>
            /\ calls[i].unlink \in {"done", "failed"}
            /\ (\A j \in Calls : calls[j].tempFile = calls[i].tempFile
                                    => calls[j].unlink = "done")
                  => calls[i].tempFile \notin DOMAIN files
            /\ calls[i].settledBy \in {"close", "error", "timeout"}
            /\ calls[i].settledBy = "close" =>
                  [status |-> calls[i].status, value |-> calls[i].value]
                      = closeOutcome(calls[i].exit, calls[i].stdout, calls[i].stderr)
            /\ calls[i].settledBy = "error" =>
                  calls[i].status = "rejected" /\ StartsWith(calls[i].value, "spawn ")
            /\ calls[i].settledBy = "timeout" =>
                  calls[i].status = "rejected" /\ calls[i].value = TimeoutMessage

\* A call resolved and its temp file is gone.
C3_Witness ==
    \E i \in Calls :
        /\ calls[i].status = "resolved" /\ calls[i].settledBy = "close"
        /\ calls[i].unlink = "done"
        /\ calls[i].tempFile \notin DOMAIN files

closeVerdictHolds(c) ==
    IF c.exit.signal # Null \/ c.exit.code # 0
    THEN /\ c.status = "rejected"
         /\ Contains(c.value, "code " \o codeText(c.exit))
         /\ EndsWith(c.value, c.stderr)
    ELSE IF c.stderr # "" /\ c.stdout = ""
    THEN c.status = "rejected" /\ EndsWith(c.value, c.stderr) /\ ~Contains(c.value, "code")
    ELSE /\ c.status = "resolved"
         /\ c.value = Trim(c.stdout)
         /\ (c.value = "" \/ (~IsSpace(CharAt(c.value, 1))
                              /\ ~IsSpace(CharAt(c.value, Len(c.value)))))
         /\ Contains(c.stdout, c.value)

\* C5 as stated: whenever the child has closed, the promise has the outcome
\* the exit code, stderr and stdout determine.
C5_CloseAlways == \A i \in Calls : calls[i].child = "closed" => closeVerdictHolds(calls[i])

\* C5, amended: when the close event is the one that settles the promise
\* (no timeout and no error event came first), a non-zero or null exit code
\* rejects with the code and stderr, code 0 with stderr and no stdout rejects
\* with stderr, and every other close resolves with trimmed stdout; a close
\* that comes after the timeout or an error event leaves the outcome as it was.
C5_CloseFirst ==
    \A i \in Calls :
        calls[i].child = "closed" =>
            IF calls[i].settledBy = "close" THEN closeVerdictHolds(calls[i])
            ELSE /\ calls[i].settledBy = "timeout" => calls[i].value = TimeoutMessage
                 /\ calls[i].settledBy = "error" => StartsWith(calls[i].value, "spawn ")
                 /\ calls[i].settledBy \in {"timeout", "error"}

\* Exit code 0 with stderr output and no stdout rejected the promise.
C5_Witness ==
    \E i \in Calls :
        /\ calls[i].settledBy = "close" /\ codeIsZero(calls[i].exit)
        /\ calls[i].stderr # "" /\ calls[i].stdout = ""
        /\ calls[i].status = "rejected"

C7_NotExecutable ==
    \A i \in Calls :
        (/\ calls[i].parsedCommand # NoCommand
         /\ ~(/\ calls[i].parsedCommand.executable \in sys.exists
              /\ calls[i].parsedCommand.executable \in sys.executable)) =>
            /\ calls[i].status = "rejected"
            /\ Contains(calls[i].value, "not found or not executable at: "
                                        \o calls[i].parsedCommand.executable)
            /\ calls[i].value # NotFoundMessage
            /\ ~Contains(calls[i].value, "Please install Claude Code")
            /\ calls[i].tempFile = Undefined /\ calls[i].unlink = "none"
            /\ calls[i].child = "none" /\ calls[i].stream = "none"

\* The executable exists but is not executable; the call was rejected.
C7_Witness ==
    \E i \in Calls :
        /\ calls[i].parsedCommand # NoCommand
        /\ calls[i].parsedCommand.executable \in sys.exists
        /\ calls[i].parsedCommand.executable \notin sys.executable
        /\ calls[i].status = "rejected"
        /\ files = <<>>

\* C11: the argument list of every spawned child holds '-p' or '--print';
\* when the resolved args hold neither, it is '-p' followed by the resolved
\* args in their order, and otherwise it is the resolved args unchanged.
C11_PrintFlag ==
    \A i \in Calls :
        calls[i].child # "none" =>
            LET resolved == calls[i].parsedCommand.args
                passed == calls[i].args
                has(a) == \E k \in 1..Len(a) : a[k] \in {"-p", "--print"}
            IN /\ has(passed)
               /\ IF has(resolved) THEN passed = resolved
                  ELSE /\ Len(passed) = Len(resolved) + 1
                       /\ passed[1] = "-p"
                       /\ \A k \in 1..Len(resolved) : passed[k + 1] = resolved[k]

\* A child was spawned with '-p' put in front of two resolved arguments.
C11_Witness ==
    \E i \in Calls :
        /\ calls[i].child # "none"
        /\ Len(calls[i].parsedCommand.args) = 2
        /\ calls[i].args = <<"-p">> \o calls[i].parsedCommand.args

\* C12 as stated: every environment variable that was set when a call began,
\* one set to the empty string included, has the same value when the
\* synchronous part of the call has run.
C12_SetKeysKept ==
    \A i \in Calls :
        \A key \in DOMAIN calls[i].envBefore :
            calls[i].envBefore[key] # Undefined =>
                calls[i].envAfter[key] = calls[i].envBefore[key]

(***************************************************************************)
(* Properties of detection (specification SpecDetect).                     *)
(***************************************************************************)
\* What detectClaudeCommand() returns for a value of this._detectedCommand.
outcomeOf(memo) == IF memo = False THEN Null ELSE memo

\* C13: an instance probes the system at most once.  A call that finds a
\* memoized outcome (a path or not-found) returns it without probing, even
\* after the system changed; a call on an instance that has not probed yet
\* (a new instance) probes and returns what the system holds now.
C13_ProbeOnce ==
    /\ probes <= 1
    /\ (probes = 0) <=> (detectedCommand = Undefined)
    /\ last.op = "detectClaudeCommand" =>
          IF last.before # Undefined
          THEN /\ ~last.probed
               /\ last.result = outcomeOf(last.before)
               /\ detectedCommand = last.before
          ELSE /\ last.probed
               /\ last.result = outcomeOf(probeSystem)
               /\ detectedCommand = probeSystem

\* A later call returned the memoized not-found although Claude Code has
\* been installed since.
C13_Witness ==
    /\ last.op = "detectClaudeCommand"
    /\ ~last.probed
    /\ last.result = Null
    /\ probeSystem # False
    /\ probes = 1

(***************************************************************************)
(* Invocations that overlap in time: a second executeClaudeCode is called  *)
(* while the child of the first is still running.                          *)
(***************************************************************************)
MaxOverlap == 2

\* options = {}: the default of executeClaudeCode(input, options = {}).
NoOptions == [claudeCodeCommand |-> Undefined, modelId |-> Undefined]

\* A call of executeClaudeCode while earlier ones may be pending.
ExecuteOverlapping(input, options, earlyOpen, unlinkFails) ==
    /\ ~crashed
    /\ Len(calls) < MaxOverlap
    /\ executeUpdates(input, options, earlyOpen, unlinkFails, FALSE)
    /\ last' = NoCall
    /\ UNCHANGED <<rcFile, sys, now, crashed>>

InitOverlap ==
    /\ env = [k \in EnvKeys |-> Undefined]
    /\ rcFile = NoFile
    /\ sys \in {SysMac, SysLinux}
    /\ InitProvider
    /\ last = NoCall
    /\ InitExecutor

NextOverlap ==
    \/ \E input \in Inputs, earlyOpen \in BOOLEAN, unlinkFails \in BOOLEAN :
          ExecuteOverlapping(input, NoOptions, earlyOpen, unlinkFails)
    \/ \E i \in 1..Len(calls) : StreamOpen(i)
    \/ \E i \in 1..Len(calls), handled \in BOOLEAN : StreamError(i, handled)
    \/ \E i \in 1..Len(calls) : StreamPipe(i)
    \/ \E i \in 1..Len(calls) : ChildClose(i, [code |-> 0, signal |-> Null])
    \/ Tick

SpecOverlap == InitOverlap /\ [][NextOverlap]_vars

(***************************************************************************)
(* validate(params): command resolution, the executable check and a trial  *)
(* execution raced against a 30 second timer.                              *)
(***************************************************************************)
ErrorTypes == {"INSTALL", "PERMISSION", "SUBSCRIPTION", "NETWORK", "UNKNOWN"}

InstallFix == "Install Claude Code: npm install -g @anthropic-ai/claude-code"

\* { isValid, errors, warnings } as validate returns it.
validation(isValid, errors) == [isValid |-> isValid, errors |-> errors, warnings |-> <<>>]
failed(type, message, fix) ==
    validation(FALSE, <<[type |-> type, message |-> message, fix |-> fix]>>)

\* The errors of the executable check, by error.code.
accessFailure(code, executable) ==
    IF code = "ENOENT"
    THEN failed("INSTALL", "Claude Code not found at: " \o executable, InstallFix)
    ELSE IF code = "EACCES"
    THEN failed("PERMISSION", "Permission denied for: " \o executable,
                "Make executable: sudo chmod +x " \o executable)
    ELSE failed("UNKNOWN", "Cannot access Claude Code: " \o code,
                "Check installation and permissions")

\* error.code of accessSync(executable, F_OK | X_OK); Null when it passes.
accessCode(executable) ==
    IF ~existsSync(executable) THEN "ENOENT"
    ELSE IF ~accessSync(executable) THEN "EACCES"
    ELSE Null

\* /resets? (?:at|in) ([^.]+)/i tried at position p of the message: the
\* captured group, or Null.
resetGroupAt(message, lower, p) ==
    LET at(q, w) == q + Len(w) - 1 <= Len(lower) /\ SubSeq(lower, q, q + Len(w) - 1) = w
        group(c) ==
            IF c > Len(message) \/ CharAt(message, c) = "." THEN Null
            ELSE LET dot == IndexOf(message, ".", c)
                 IN SubSeq(message, c, IF dot = 0 THEN Len(message) ELSE dot - 1)
        tail(q) ==
            IF at(q, " at ") \/ at(q, " in ") THEN group(q + 4) ELSE Null
    IN IF ~at(p, "reset") THEN Null
       ELSE IF at(p + 5, "s") /\ tail(p + 6) # Null THEN tail(p + 6)
       ELSE tail(p + 5)

\* errorMessage.match(...): the group of the leftmost match, or Null.
resetMatch(message) ==
    LET lower == ToLowerCase(message)
        hits == {p \in 1..Len(message) : resetGroupAt(message, lower, p) # Null}
    IN IF hits = {} THEN Null
       ELSE resetGroupAt(message, lower, CHOOSE p \in hits : \A q \in hits : p <= q)

ValidateTimeoutMs == 30000
ValidateTimeout == "TIMEOUT"

\* The catch block around the trial execution: the error's category.
classifyTrialError(message) ==
    LET errorMessage == IF message = "" THEN "Error" ELSE message IN
    IF message = ValidateTimeout
    THEN failed("SUBSCRIPTION", "Claude Code did not respond within 30 seconds",
                "Ensure you have an active Claude PRO or MAX subscription")
    ELSE IF Contains(errorMessage, "usage limit") \/ Contains(errorMessage, "rate limit")
    THEN LET m == resetMatch(errorMessage)
             resetInfo == IF m = Null THEN "" ELSE " (resets " \o m \o ")"
         IN failed("SUBSCRIPTION", "Usage limit reached" \o resetInfo,
                   "Wait for limit reset or upgrade your Claude subscription")
    ELSE IF Contains(errorMessage, "ENETUNREACH") \/ Contains(errorMessage, "network")
    THEN failed("NETWORK", "Network unreachable",
                "Check your internet connection and try again")
    ELSE IF Contains(errorMessage, "EACCES")
    THEN failed("PERMISSION", "Permission denied: " \o errorMessage,
                "Check file permissions or run with elevated privileges")
    ELSE IF Contains(errorMessage, "ENOENT")
    THEN failed("INSTALL", "Claude Code executable not found during execution",
                "Reinstall Claude Code: npm install -g @anthropic-ai/claude-code")
    ELSE failed("UNKNOWN", "Claude Code error: " \o errorMessage,
                "Check Claude Code logs or try reinstalling")

\* The outer catch block: any other exception becomes an UNKNOWN error.
catchUnexpected(message) ==
    failed("UNKNOWN", "Unexpected error during validation: " \o message,
           "Check system logs and Claude Code installation")

\* validate(null): the default value does not apply and getClaudeCommand
\* throws on reading a property of null.
NullParams == [null |-> TRUE]
NullParamsError == "Cannot read properties of null (reading 'claudeCodeCommand')"

\* The trial runs executeClaudeCode(testPrompt) with no options.
TestPrompt == "Hi"

returned(params, result) ==
    [op |-> "validate", params |-> params, phase |-> "fulfilled", call |-> 0,
     deadline |-> 0, result |-> result]
awaiting(params, call) ==
    [op |-> "validate", params |-> params, phase |-> "pending", call |-> call,
     deadline |-> now + ValidateTimeoutMs, result |-> Null]

validatePending == last.op = "validate" /\ last.phase = "pending"

\* validate(params) up to its first suspension: it returns at once when the
\* command is missing or not accessible, and when the trial throws before it
\* spawns anything; otherwise it waits for the trial or the timer.
ValidateStart(params, earlyOpen, unlinkFails) ==
    /\ ~crashed
    /\ ~validatePending
    /\ Len(calls) < MaxCalls
    /\ IF params = NullParams
       THEN /\ last' = returned(params, catchUnexpected(NullParamsError))
            /\ UNCHANGED <<detectedCommand, probes, rcConfig, rcConfigLoaded, env, calls, files>>
       ELSE LET rc == getRCConfig(env)
                command == getClaudeCommand(params, env, rc)
                executable == parseCommand(command).executable
            IN IF command = Null
               THEN /\ ResolveUpdates(params, env)
                    /\ last' = returned(params, failed("INSTALL", "Claude Code not found", InstallFix))
                    /\ UNCHANGED <<env, calls, files>>
               ELSE IF accessCode(executable) # Null
               THEN /\ ResolveUpdates(params, env)
                    /\ last' = returned(params, accessFailure(accessCode(executable), executable))
                    /\ UNCHANGED <<env, calls, files>>
               ELSE /\ executeUpdates(TestPrompt, NoOptions, earlyOpen, unlinkFails,
                                      usesDetection(params, env, rc))
                    /\ last' = IF calls'[Len(calls')].status = "rejected"
                               THEN returned(params, classifyTrialError(calls'[Len(calls')].value))
                               ELSE awaiting(params, Len(calls'))
    /\ UNCHANGED <<rcFile, sys, now, crashed>>

\* The trial's promise settled first: validate resumes after the await.
ValidateResume ==
    /\ ~crashed
    /\ validatePending
    /\ calls[last.call].status # "pending"
    /\ last' = returned(last.params,
                        IF calls[last.call].status = "resolved" THEN validation(TRUE, <<>>)
                        ELSE classifyTrialError(calls[last.call].value))
    /\ UNCHANGED <<env, rcFile, sys, detectedCommand, probes, rcConfig, rcConfigLoaded, execVars>>

validateTimerDue ==
    validatePending /\ calls[last.call].status = "pending" /\ now >= last.deadline

\* The 30 second timer rejects the race first; the trial goes on.
ValidateTimerFire ==
    /\ ~crashed
    /\ validateTimerDue
    /\ last' = returned(last.params, classifyTrialError(ValidateTimeout))
    /\ UNCHANGED <<env, rcFile, sys, detectedCommand, probes, rcConfig, rcConfigLoaded, execVars>>

\* validate(null), validate({}) and validate with a command override.
ValidateParams == {NullParams, NoOptions, [claudeCodeCommand |-> "/opt/claude --print", modelId |-> Undefined]}
\* What the trial's child writes to stderr, and the errors of its spawn.
ValidateStderrChunks == {"usage limit: Resets at 5pm. Bye", "connect ENETUNREACH"}
ValidateSpawnErrors == {"spawn /usr/bin/claude ENOENT", "spawn EACCES"}

InitValidate ==
    /\ env = [k \in EnvKeys |-> Undefined]
    /\ rcFile \in {NoFile, RCFileRef}
    /\ sys \in ExecSystems
    /\ InitProvider
    /\ last = NoCall
    /\ InitExecutor

\* Timers fire in the order of their deadlines: the 5 minute timer of the
\* trial waits for the 30 second timer armed after it.
NextValidate ==
    \/ \E params \in ValidateParams, earlyOpen \in BOOLEAN, unlinkFails \in BOOLEAN :
          ValidateStart(params, earlyOpen, unlinkFails)
    \/ ValidateResume
    \/ ValidateTimerFire
    \/ \E i \in 1..Len(calls) : StreamOpen(i)
    \/ \E i \in 1..Len(calls), handled \in BOOLEAN : StreamError(i, handled)
    \/ \E i \in 1..Len(calls) : StreamPipe(i)
    \/ \E i \in 1..Len(calls), data \in {" ok\n"} : ChildStdout(i, data)
    \/ \E i \in 1..Len(calls), data \in ValidateStderrChunks : ChildStderr(i, data)
    \/ \E i \in 1..Len(calls), ev \in CloseEvents : ChildClose(i, ev)
    \/ \E i \in 1..Len(calls), error \in ValidateSpawnErrors : ChildError(i, error)
    \/ \E i \in 1..Len(calls) : ~validateTimerDue /\ TimerFire(i)
    \/ Tick

SpecValidate == InitValidate /\ [][NextValidate]_vars

(***************************************************************************)
(* Properties of validate (specification SpecValidate).                    *)
(***************************************************************************)
validateResultWellFormed(r) ==
    /\ r.isValid \in BOOLEAN
    /\ \A k \in 1..Len(r.errors) : r.errors[k].type \in ErrorTypes
    /\ r.isValid <=> (r.errors = <<>>)

\* Whenever validate has settled it has returned a well-formed result.
ValidateSettledWellFormed ==
    last.op = "validate" /\ last.phase # "pending" =>
        last.phase = "fulfilled" /\ validateResultWellFormed(last.result)

\* C14: validate never throws or rejects, and every failure of command
\* resolution, of the executable check or of the trial execution is returned
\* as a result whose errors carry one of the five types, isValid being true
\* exactly when there are no errors.  A failure of the trial never ends the
\* process while validate waits for it.
C14_ValidateReturns ==
    /\ ValidateSettledWellFormed
    /\ validatePending => ~crashed

(***************************************************************************)
(* generateText and generateObject.                                        *)
(***************************************************************************)
\* The first index from p on whose character is not in the set; Len(s) + 1
\* when there is none.
skipChars(s, p, set) ==
    LET hits == {i \in p..Len(s) : CharAt(s, i) \notin set}
    IN IF hits = {} THEN Len(s) + 1 ELSE CHOOSE i \in hits : \A j \in hits : i <= j

\* String.prototype.replace(/<marker>\s*/g, ''): every occurrence of the
\* marker goes, with the white space that follows it.
RECURSIVE removeFrom(_, _, _)
removeFrom(s, marker, from) ==
    LET i == IndexOf(s, marker, from) IN
    IF i = 0 THEN SubSeq(s, from, Len(s))
    ELSE SubSeq(s, from, i - 1)
         \o removeFrom(s, marker, skipChars(s, i + Len(marker), {" ", "\t", "\n", "\r", "\f"}))
removeAll(s, marker) == CHOOSE r \in {removeFrom(v, marker, 1) : v \in {s}} : TRUE

\* The grave accent cannot be written in a string here: "~" stands for it in
\* the fence marker and in every response text.
Fence == "~~~"

\* The two replace calls: the marker followed by json, then the bare marker.
stripFences(jsonText) == removeAll(removeAll(jsonText, Fence \o "json"), Fence)

\* String.prototype.lastIndexOf, 1-based; 0 when sub does not occur.
LastIndexOf(s, sub) ==
    LET hits == {i \in 1..(Len(s) - Len(sub) + 1) : SubSeq(s, i, i + Len(sub) - 1) = sub}
    IN IF hits = {} THEN 0 ELSE CHOOSE i \in hits : \A j \in hits : i >= j

\* Variant: the object ends at the first closing brace.
extractObjectToFirstClose(jsonText) ==
    LET firstBrace == IndexOf(jsonText, "{", 1)
        close == IndexOf(jsonText, "}", 1)
    IN IF firstBrace # 0 /\ close # 0 /\ firstBrace <= close
       THEN SubSeq(jsonText, firstBrace, close) ELSE jsonText

\* substring(firstBrace, lastBrace + 1) when both braces occur; substring
\* swaps its arguments when the first is the larger one.
extractObject(jsonText) ==
    LET firstBrace == IndexOf(jsonText, "{", 1)
        lastBrace == LastIndexOf(jsonText, "}")
    IN IF firstBrace # 0 /\ lastBrace # 0
       THEN IF firstBrace <= lastBrace THEN SubSeq(jsonText, firstBrace, lastBrace)
            ELSE SubSeq(jsonText, lastBrace + 1, firstBrace - 1)
       ELSE jsonText

\* JSON.parse.  A parsed value is represented by its text with the white
\* space between tokens removed.  The grammar is JSON's without escape
\* sequences in strings and without exponents in numbers.
JSONWhitespace == {" ", "\n", "\t", "\r"}
JSONDigits == {"0", "1", "2", "3", "4", "5", "6", "7", "8", "9"}
jsonFail(p) == [ok |-> FALSE, pos |-> p, out |-> ""]
jsonDone(p, out) == [ok |-> TRUE, pos |-> p, out |-> out]
jsonAt(s, p, c) == p <= Len(s) /\ CharAt(s, p) = c

\* s[p] is a double quote.
jsonString(s, p) ==
    LET q == IndexOf(s, "\"", p + 1)
        end == IF q = 0 THEN Len(s) + 1 ELSE q
        bad == {i \in (p + 1)..(end - 1) : CharAt(s, i) \in {"\\", "\n", "\t", "\r"}}
    IN IF bad # {} THEN jsonFail(CHOOSE i \in bad : \A j \in bad : i <= j)
       ELSE IF q = 0 THEN jsonFail(end)
       ELSE jsonDone(q + 1, SubSeq(s, p, q))

\* s[p] is a digit or a minus sign.
jsonNumber(s, p) ==
    LET first == IF CharAt(s, p) = "-" THEN p + 1 ELSE p
        intEnd == skipChars(s, first, JSONDigits)
        fracEnd == skipChars(s, intEnd + 1, JSONDigits)
    IN IF intEnd = first THEN jsonFail(first)
       ELSE IF intEnd - first > 1 /\ CharAt(s, first) = "0" THEN jsonFail(first + 1)
       ELSE IF ~jsonAt(s, intEnd, ".") THEN jsonDone(intEnd, SubSeq(s, p, intEnd - 1))
       ELSE IF fracEnd = intEnd + 1 THEN jsonFail(fracEnd)
       ELSE jsonDone(fracEnd, SubSeq(s, p, fracEnd - 1))

jsonLiteral(s, p) ==
    LET is(w) == p + Len(w) - 1 <= Len(s) /\ SubSeq(s, p, p + Len(w) - 1) = w
    IN IF is("true") THEN jsonDone(p + 4, "true")
       ELSE IF is("false") THEN jsonDone(p + 5, "false")
       ELSE IF is("null") THEN jsonDone(p + 4, "null")
       ELSE jsonFail(p)

\* The parser as a pushdown automaton over the characters: stack holds the
\* open brackets, expect what may come next, skip the index up to which a
\* string, number or literal has already been consumed.
jsonStart == [ok |-> TRUE, pos |-> 0, skip |-> 0, stack |-> <<>>, expect |-> "value", out |-> ""]
jsonStop(st, p) == [st EXCEPT !.ok = FALSE, !.pos = p]
jsonAfterValue(stack) == IF stack = <<>> THEN "end" ELSE "more"
jsonPop(st, c) ==
    [st EXCEPT !.stack = Tail(st.stack), !.out = @ \o c,
               !.expect = jsonAfterValue(Tail(st.stack))]
jsonPush(st, c) ==
    [st EXCEPT !.stack = <<c>> \o st.stack, !.out = @ \o c,
               !.expect = IF c = "{" THEN "keyOrClose" ELSE "valueOrClose"]
jsonToken(st, r, expect) ==
    IF ~r.ok THEN jsonStop(st, r.pos)
    ELSE [st EXCEPT !.out = @ \o r.out, !.skip = r.pos - 1, !.expect = expect]

jsonStep(st, s, i) ==
    LET c == CharAt(s, i) IN
    IF ~st.ok \/ i <= st.skip \/ c \in JSONWhitespace THEN st
    ELSE IF st.expect \in {"value", "valueOrClose"}
    THEN IF c = "]" /\ st.expect = "valueOrClose" THEN jsonPop(st, c)
         ELSE IF c \in {"{", "["} THEN jsonPush(st, c)
         ELSE IF c = "\"" THEN jsonToken(st, jsonString(s, i), jsonAfterValue(st.stack))
         ELSE IF c \in JSONDigits \cup {"-"}
         THEN jsonToken(st, jsonNumber(s, i), jsonAfterValue(st.stack))
         ELSE jsonToken(st, jsonLiteral(s, i), jsonAfterValue(st.stack))
    ELSE IF st.expect \in {"key", "keyOrClose"}
    THEN IF c = "}" /\ st.expect = "keyOrClose" THEN jsonPop(st, c)
         ELSE IF c = "\"" THEN jsonToken(st, jsonString(s, i), "colon")
         ELSE jsonStop(st, i)
    ELSE IF st.expect = "colon"
    THEN IF c = ":" THEN [st EXCEPT !.out = @ \o c, !.expect = "value"] ELSE jsonStop(st, i)
    ELSE IF st.expect = "more"
    THEN IF c = "," THEN [st EXCEPT !.out = @ \o c,
                                    !.expect = IF st.stack[1] = "{" THEN "key" ELSE "value"]
         ELSE IF c = (IF st.stack[1] = "{" THEN "}" ELSE "]") THEN jsonPop(st, c)
         ELSE jsonStop(st, i)
    ELSE jsonStop(st, i)

\* The characters lo..hi in order, as two halves.
RECURSIVE jsonScan(_, _, _, _)
jsonScan(s, lo, hi, st) ==
    IF lo > hi THEN st
    ELSE IF lo = hi THEN jsonStep(st, s, lo)
    ELSE LET mid == (lo + hi) \div 2 IN
         CHOOSE r \in {jsonScan(s, mid + 1, hi, half) :
                          half \in {jsonScan(s, lo, mid, st)}} : TRUE

\* The whole text: it must hold one value and nothing after it.
jsonValue(s) ==
    CHOOSE r \in {IF end.ok /\ end.expect # "end" THEN jsonStop(end, Len(s) + 1) ELSE end :
                     end \in {jsonScan(s, 1, Len(s), jsonStart)}} : TRUE

\* The SyntaxError's message.
jsonSyntaxError(s, p) ==
    IF p > Len(s) THEN "Unexpected end of JSON input"
    ELSE "Unexpected token " \o CharAt(s, p) \o " in JSON at position " \o ToString(p - 1)

JSONParse(text) ==
    CHOOSE parsed \in {IF ~r.ok THEN [ok |-> FALSE, message |-> jsonSyntaxError(text, r.pos)]
                          ELSE [ok |-> TRUE, value |-> r.out] : r \in {jsonValue(text)}} : TRUE

ParseFailurePrefix == "Failed to parse JSON from Claude Code response: "

\* The inner try block of generateObject: the parsed object, or the error thrown.
parseResponse(text) ==
    LET stripped == {stripFences(t) : t \in {Trim(text)}}
        extracted == {extractObject(t) : t \in stripped}
    IN CHOOSE r \in {IF parsed.ok THEN [ok |-> TRUE, object |-> parsed.value]
                     ELSE [ok |-> FALSE, message |-> ParseFailurePrefix \o parsed.message] :
                     parsed \in {JSONParse(t) : t \in extracted}} : TRUE

\* The role prefixes of the prompt; '' for any other role.
formatMessage(msg) ==
    IF msg.role = "system" THEN "System: " \o msg.content
    ELSE IF msg.role = "user" THEN "Human: " \o msg.content
    ELSE IF msg.role = "assistant" THEN "Assistant: " \o msg.content
    ELSE ""

\* messages.map(...).join('\n\n') and the final prompt for the assistant.
RECURSIVE joinMessages(_, _)
joinMessages(messages, k) ==
    IF k > Len(messages) THEN ""
    ELSE IF k = Len(messages) THEN formatMessage(messages[k])
    ELSE formatMessage(messages[k]) \o "\n\n" \o joinMessages(messages, k + 1)
formatPrompt(messages) ==
    joinMessages(messages, 1)
    \o (IF messages[Len(messages)].role # "assistant" THEN "\n\nAssistant:" ELSE "")

MessagesRequired == "Messages array is required for text generation."

\* generateObject's instruction, appended to the last message when it is a
\* user message.
jsonInstruction(objectName) ==
    "\n\nIMPORTANT: Your response MUST be valid JSON that matches this structure: "
    \o (IF objectName = Undefined THEN "object" ELSE objectName)
    \o "\n\nRespond ONLY with the JSON object, no explanation, no markdown, just the raw JSON."
modifiedMessages(messages, objectName) ==
    IF Len(messages) > 0 /\ messages[Len(messages)].role = "user"
    THEN [messages EXCEPT ![Len(messages)].content = @ \o jsonInstruction(objectName)]
    ELSE messages

\* BaseAIProvider.handleError as the repository's test doubles define it:
\* the error is thrown again.
handleError(operation, message) == message

\* Variant: generateText hands the whole params object to executeClaudeCode.
executeOptionsWithOverride(params) ==
    [claudeCodeCommand |-> params.claudeCodeCommand, modelId |-> params.modelId]

\* The options generateText passes: { modelId } and nothing else.
executeOptions(params) == [claudeCodeCommand |-> Undefined, modelId |-> params.modelId]

\* What generateObject makes of the text generateText returned.
objectOutcome(text) ==
    CHOOSE o \in {IF r.ok THEN [phase |-> "fulfilled", result |-> [object |-> r.object]]
                  ELSE [phase |-> "rejected",
                        result |-> handleError("object generation", r.message)] :
                  r \in {parseResponse(text)}} : TRUE

\* How a generate call ends once executeClaudeCode has settled.
generateOutcome(op, call) ==
    IF call.status = "rejected"
    THEN [phase |-> "rejected",
          result |-> IF op = "generateObject"
                     THEN handleError("object generation", handleError("text generation", call.value))
                     ELSE handleError("text generation", call.value)]
    ELSE IF op = "generateObject" THEN objectOutcome(call.value)
    ELSE [phase |-> "fulfilled", result |-> [text |-> call.value]]

\* The caller's messages once the call has run its synchronous part.
\* [...messages] copies the array and not the message objects in it, so the
\* += on lastMessage.content is made on the caller's own last message.
messagesAfter(op, params) ==
    IF op = "generateObject" THEN modifiedMessages(params.messages, params.objectName)
    ELSE params.messages

\* The record of a generate call: messages is the caller's array as the
\* call left it.
generateCall(op, params, call, outcome) ==
    [op |-> op, params |-> params, call |-> call, messages |-> messagesAfter(op, params),
     phase |-> outcome.phase, result |-> outcome.result]

generatePending == last.op \in {"generateText", "generateObject"} /\ last.phase = "pending"

\* generateText(params) or generateObject(params) up to the await of
\* executeClaudeCode.
GenerateStart(op, params, earlyOpen, unlinkFails) ==
    /\ ~crashed
    /\ ~generatePending
    /\ Len(calls) < MaxCalls
    /\ LET messages == IF op = "generateObject"
                       THEN modifiedMessages(params.messages, params.objectName)
                       ELSE params.messages
       IN IF Len(messages) = 0
          THEN /\ last' = generateCall(op, params, 0,
                              generateOutcome(op, [status |-> "rejected", value |-> MessagesRequired]))
               /\ UNCHANGED <<env, detectedCommand, probes, rcConfig, rcConfigLoaded, calls, files>>
          ELSE /\ executeUpdates(formatPrompt(messages), executeOptions(params),
                                 earlyOpen, unlinkFails, FALSE)
               /\ last' = IF calls'[Len(calls')].status = "rejected"
                          THEN generateCall(op, params, Len(calls'),
                                            generateOutcome(op, calls'[Len(calls')]))
                          ELSE generateCall(op, params, Len(calls'),
                                            [phase |-> "pending", result |-> Null])
    /\ UNCHANGED <<rcFile, sys, now, crashed>>

\* executeClaudeCode settled: the caller resumes after the await.
GenerateResume ==
    /\ ~crashed
    /\ generatePending
    /\ calls[last.call].status # "pending"
    /\ last' = generateCall(last.op, last.params, last.call,
                            generateOutcome(last.op, calls[last.call]))
    /\ UNCHANGED <<env, rcFile, sys, detectedCommand, probes, rcConfig, rcConfigLoaded, execVars>>

MessageLists ==
    {<<>>, <<[role |-> "system", content |-> "Be brief"],
             [role |-> "user", content |-> "Make a profile"]>>}
GenerateParams == [messages : MessageLists, modelId : {Undefined}, objectName : {Undefined}, claudeCodeCommand : {Undefined, "/opt/claude --print"}]
GenerateOps == {"generateText", "generateObject"}

\* The child answers on stdout alone and ends before the five minutes are
\* over.  What the model answers: prose, fences and objects around a JSON body.
ResponseTexts ==
    LET prefixes == {"", "~~~json\n", "Sure, here it is:\n~~~\n"}
        bodies == {"{\"a\":{\"b\":[1, 2]}, \"c\":\"x\"}", "[1, 2]", "{\"a\":1", "{a:1}",
                   "} {", "{\"a\":1} and {\"b\":2}"}
        suffixes == {"\n", "\n~~~\nDone.\n"}
    IN {p \o b \o s : p \in prefixes, b \in bodies, s \in suffixes}

InitGenerate ==
    /\ env = [k \in EnvKeys |-> Undefined]
    /\ rcFile \in {NoFile, RCFileRef}
    /\ sys \in ExecSystems
    /\ InitProvider
    /\ last = NoCall
    /\ InitExecutor

NextGenerate ==
    \/ \E op \in GenerateOps, params \in GenerateParams, earlyOpen \in BOOLEAN, unlinkFails \in BOOLEAN :
          GenerateStart(op, params, earlyOpen, unlinkFails)
    \/ GenerateResume
    \/ \E i \in 1..Len(calls) : StreamOpen(i)
    \/ \E i \in 1..Len(calls), handled \in BOOLEAN : StreamError(i, handled)
    \/ \E i \in 1..Len(calls) : StreamPipe(i)
    \/ \E i \in 1..Len(calls), data \in ResponseTexts : ChildStdout(i, data)
    \/ \E i \in 1..Len(calls), ev \in CloseEvents : ChildClose(i, ev)
    \/ \E i \in 1..Len(calls) : ChildError(i, SpawnError(calls[i].executable))

SpecGenerate == InitGenerate /\ [][NextGenerate]_vars

(***************************************************************************)
(* Properties of generateObject and generateText (specification            *)
(* SpecGenerate).                                                          *)
(***************************************************************************)
\* A generateObject call that got a response text from executeClaudeCode.
objectAnswered ==
    /\ last.op = "generateObject"
    /\ last.phase # "pending"
    /\ last.call # 0
    /\ calls[last.call].status = "resolved"

\* The call ended as parsing the candidate text prescribes: the parsed
\* object, or a 'Failed to parse JSON' error holding the parser's message.
endsAsParseOf(candidate) ==
    LET parsed == JSONParse(candidate) IN
    IF parsed.ok
    THEN last.phase = "fulfilled" /\ last.result = [object |-> parsed.value]
    ELSE /\ last.phase = "rejected"
         /\ Contains(last.result, "Failed to parse JSON")
         /\ Contains(last.result, parsed.message)

MaxTokens == 3
MaxPieces == 4

\* Lists of tokens without a space, a quote or a backslash.
TokenLists ==
    UNION {[1..n -> {"claude", "/usr/bin/claude", "-p", "--model=opus", "a\tb"}] :
              n \in 1..MaxTokens}

\* Lists of the characters commands are made of.
PieceLists == UNION {[1..n -> {"a", " ", "\\", "\"", "'"}] : n \in 0..MaxPieces}

\* The pieces one after the other.
RECURSIVE concatFrom(_, _)
concatFrom(pieces, k) ==
    IF k > Len(pieces) THEN "" ELSE pieces[k] \o concatFrom(pieces, k + 1)
Concat(pieces) == CHOOSE r \in {concatFrom(p, 1) : p \in {pieces}} : TRUE

parsed(tokens, command) ==
    [op |-> "parseCommand", tokens |-> tokens, command |-> command,
     result |-> parseCommand(command)]

\* parseCommand(tokens.join(' ')).  The function keeps no state: one
\* application per behaviour shows all it does.
ParseTokens(tokens) ==
    /\ last = NoCall
    /\ last' = parsed(tokens, JoinSpace(tokens))
    /\ UNCHANGED <<env, rcFile, sys, detectedCommand, probes, rcConfig, rcConfigLoaded, execVars>>

\* parseCommand of a command given character by character.
ParsePieces(pieces) ==
    /\ last = NoCall
    /\ last' = parsed(<<>>, Concat(pieces))
    /\ UNCHANGED <<env, rcFile, sys, detectedCommand, probes, rcConfig, rcConfigLoaded, execVars>>

InitParse ==
    /\ env = [k \in EnvKeys |-> Undefined]
    /\ rcFile = NoFile
    /\ sys = SysNone
    /\ InitProvider
    /\ last = NoCall
    /\ InitExecutor

NextParse ==
    \/ \E tokens \in TokenLists : ParseTokens(tokens)
    \/ \E pieces \in PieceLists : ParsePieces(pieces)

SpecParse == InitParse /\ [][NextParse]_vars

(***************************************************************************)
(* Properties of parseCommand (specification SpecParse).                   *)
(***************************************************************************)
\* C16: the tokens of a command made of plain tokens joined by single
\* spaces come back in order: the first as executable, the rest as args.
C16_RoundTrip ==
    last.op = "parseCommand" /\ last.tokens # <<>> =>
        /\ last.result.executable = last.tokens[1]
        /\ last.result.args = Tail(last.tokens)

\* Three tokens, one of them holding a tab, came back.
C16_Witness ==
    /\ last.op = "parseCommand"
    /\ last.tokens = <<"/usr/bin/claude", "a\tb", "-p">>
    /\ last.command = "/usr/bin/claude a\tb -p"
    /\ last.result = [executable |-> "/usr/bin/claude", args |-> <<"a\tb", "-p">>]

\* The tokens of a command in which no quote opens or closes a quoted part,
\* by the rule for backslashes alone: a backslash before a double quote, a
\* single quote or a backslash goes and that character stays; any other
\* backslash stays; every space ends the token.  "quoted" when a quote is
\* met that no backslash escapes.
RECURSIVE backslashTokens(_, _, _, _)
backslashTokens(command, i, parts, current) ==
    LET flush == IF current = "" THEN parts ELSE Append(parts, current) IN
    IF i > Len(command) THEN flush
    ELSE IF CharAt(command, i) = "\\"
    THEN IF i + 1 <= Len(command) /\ CharAt(command, i + 1) \in {"\"", "'", "\\"}
         THEN backslashTokens(command, i + 2, parts, current \o CharAt(command, i + 1))
         ELSE backslashTokens(command, i + 1, parts, current \o "\\")
    ELSE IF CharAt(command, i) \in {"\"", "'"} THEN <<"quoted">>
    ELSE IF CharAt(command, i) = " " THEN backslashTokens(command, i + 1, flush, "")
    ELSE backslashTokens(command, i + 1, parts, current \o CharAt(command, i))

sourceModel(e) ==
    IF Truthy(e["CLAUDE_CODE_MODEL"]) THEN resolveModelAlias(e["CLAUDE_CODE_MODEL"])
    ELSE IF rcFile # NoFile /\ Truthy(Lookup(rcFile.variables, "model"))
    THEN resolveModelAlias(rcFile.variables["model"])
    ELSE Null

\* C18: a resolution that follows an earlier one on the same instance takes
\* the command and the model from the environment as it is now, then from
\* the RC file's own value, then (the command) from auto-detection, never
\* from a value an environment variable held before.
C18_CurrentEnvironment ==
    (last.op = "getClaudeCommand" /\ ~last.fresh) =>
        /\ last.base = sourceBase(last.params, env)
        /\ ~Truthy(last.params.modelId) =>
              modelSelection(last.params, env, rcConfig).modelToUse = sourceModel(env)

\* C19: a command override given to generateText or generateObject is the
\* command that runs: whenever isAvailable(params) is true the call does
\* not fail with the not-configured error, and the executable spawned is
\* the one resolution yields for those params.
C19_OverrideExecuted ==
    (last.op \in GenerateOps /\ last.call # 0) =>
        LET c == calls[last.call]
            rc == getRCConfig(c.envBefore)
        IN isAvailable(last.params, c.envBefore, rc) =>
              /\ c.value # NotFoundMessage
              /\ c.child # "none" =>
                    c.executable = getClaudeCommandParsed(last.params, c.envBefore, rc).executable

(***************************************************************************)
(* Properties of overlapping invocations (specification SpecOverlap).      *)
(***************************************************************************)
\* Invocation j began before invocation i had settled.
overlap(i, j) ==
    /\ i < j
    /\ calls[i].tempFile # Undefined /\ calls[j].tempFile # Undefined
    /\ calls[i].status = "pending" \/ calls[i].settledAt > calls[j].startedAt

\* C20: two invocations that overlap in time, two begun in the same
\* millisecond included, never share a temp file path.
C20_OwnTempFile ==
    \A i \in Calls, j \in Calls : overlap(i, j) => calls[i].tempFile # calls[j].tempFile

(***************************************************************************)
(* Properties of model selection and of the resolved executable            *)
(* (specification Spec).                                                   *)
(***************************************************************************)
\* The arguments resolution yields when the model id m arrives through
\* CLAUDE_CODE_MODEL instead of params.modelId, everything else equal.
argsViaEnvironment(m, params, e, rc) ==
    getClaudeCommandParsed([params EXCEPT !.modelId = Undefined],
                           [e EXCEPT !["CLAUDE_CODE_MODEL"] = m], rc).args

\* The arguments resolution yields when the model id m arrives through the
\* loaded RC configuration's model instead of params.modelId.
argsViaRC(m, params, e, rc) ==
    getClaudeCommandParsed([params EXCEPT !.modelId = Undefined],
                           [e EXCEPT !["CLAUDE_CODE_MODEL"] = Undefined],
                           [rc EXCEPT !.model = m]).args

\* C21: a model id resolves to the same arguments whether it is given as
\* params.modelId, through CLAUDE_CODE_MODEL or as the RC model variable,
\* for the same string and the same RC aliases.
C21_SameResolution ==
    (/\ last.op = "getClaudeCommandParsed"
     /\ Truthy(last.params.modelId)
     /\ last.result # NoCommand) =>
        /\ last.result.args = argsViaEnvironment(last.params.modelId, last.params, env, rcConfig)
        /\ rcConfig # NoConfig =>
              last.result.args = argsViaRC(last.params.modelId, last.params, env, rcConfig)

\* C22: whenever resolution succeeds (getClaudeCommandParsed is not null,
\* getClaudeCommand is not null, isAvailable is true) the resolved
\* executable is a non-empty string, for every truthy command source value.
C22_ExecutableNonEmpty ==
    /\ (last.op = "getClaudeCommandParsed" /\ last.result # NoCommand) =>
          last.result.executable # ""
    /\ (last.op = "getClaudeCommand" /\ last.result # Null) =>
          parsedBase(last.base, rcConfig).executable # ""
    /\ (last.op = "isAvailable" /\ last.result) =>
          parsedBase(last.base, rcConfig).executable # ""

(***************************************************************************)
(* The RC configuration over the life of one provider instance: the RC     *)
(* file on disk may appear, change or become unreadable after the first    *)
(* load, the environment may change, and the instance resolves and         *)
(* executes.                                                               *)
(***************************************************************************)
\* An RC file is written, replaced, removed or made unreadable.  The record
\* of the last call is dropped: it describes a call made with the files as
\* they are now.
RCFileChanges(f) ==
    /\ f # rcFile
    /\ rcFile' = f
    /\ last' = NoCall
    /\ UNCHANGED <<env, sys, detectedCommand, probes, rcConfig, rcConfigLoaded, execVars>>

\* What loadClaudeRC may find on disk: nothing, an unreadable file, a project
\* file, a file with exports only, the default file.
ConfigRCFiles == {NoFile, RCUnreadable, RCProject, RCFileRef, RCDefault}

\* Command overrides: none, and a command that carries its own model flag,
\* whose value is also the name of an alias of the project and default files.
ConfigCommands == {Undefined, "claude --model fast"}

InitConfig ==
    /\ \E m \in EnvModelValues :
          env = [k \in EnvKeys |-> IF k = "CLAUDE_CODE_MODEL" THEN m ELSE Undefined]
    /\ rcFile \in ConfigRCFiles
    /\ sys = SysMac
    /\ InitProvider
    /\ last = NoCall
    /\ InitExecutor

NextConfig ==
    \/ \E command \in ConfigCommands, modelId \in ModelIds :
          GetClaudeCommandParsed([claudeCodeCommand |-> command, modelId |-> modelId])
    \/ \E options \in ExecOptions : ExecuteClaudeCode("Say hi", options, TRUE, FALSE)
    \/ \E value \in EnvModelValues : SetEnv("CLAUDE_CODE_MODEL", value)
    \/ \E f \in ConfigRCFiles : RCFileChanges(f)

SpecConfig == InitConfig /\ [][NextConfig]_vars

\* C23: the RC file is loaded at most once per provider instance, also when
\* no file is found or loading throws: once the instance has attempted the
\* load, the flag stays set and no resolution or execution changes the
\* loaded configuration (command, model, aliases, exports), whatever has
\* happened to the files and the environment since.
C23_LoadedOnce ==
    [][rcConfigLoaded => rcConfigLoaded' /\ rcConfig' = rcConfig]_vars

\* A resolution on an instance whose load found nothing readable, made after
\* an RC file has appeared on disk.
C23_Witness ==
    /\ last.op = "getClaudeCommandParsed" /\ ~last.fresh
    /\ rcConfigLoaded /\ rcConfig = NoConfig
    /\ rcFile = RCProject

(***************************************************************************)
(* Properties of the settlement race (specification SpecExec).             *)
(***************************************************************************)
\* What the events so far allow for invocation i: an armed timer means that
\* neither close nor error has been handled; a handled close or error
\* settled the promise unless the timer had fired before; the child was
\* killed exactly when the timer fired, and then the timeout settled it.
settlementConsistent(i) ==
    LET c == calls[i] IN
    /\ (c.status = "pending") = (c.settledBy = "none")
    /\ c.timer = "armed" => c.child = "running" /\ c.status = "pending"
    /\ c.child \in {"closed", "errored"} => c.timer \in {"cleared", "fired"}
    /\ c.killed = (c.timer = "fired")
    /\ (c.timer = "fired") = (c.settledBy = "timeout")
    /\ c.settledBy = "close" => c.child = "closed" /\ c.timer = "cleared"
    /\ c.settledBy = "error" => c.child \in {"errored", "closed"} /\ c.timer = "cleared"

\* A settled promise keeps its outcome.
settlementKept(i) ==
    calls[i].status # "pending" =>
        /\ calls'[i].status = calls[i].status
        /\ calls'[i].value = calls[i].value
        /\ calls'[i].settledBy = calls[i].settledBy

\* C24: the promise of an invocation settles once, with the outcome of
\* whichever of child close, child error and timer expiry is handled first;
\* a handled close or error cancels the timer, so the timeout never kills a
\* child that has closed.
C24_SettlesOnce ==
    /\ [](\A i \in 1..Len(calls) : settlementConsistent(i))
    /\ [][\A i \in 1..Len(calls) : settlementKept(i)]_vars

\* A child closed before the deadline, and the deadline has passed since.
C24_Witness ==
    \E i \in 1..Len(calls) :
        /\ calls[i].settledBy = "close" /\ calls[i].timer = "cleared"
        /\ now >= timerDeadline(calls[i].startedAt)
        /\ ~calls[i].killed

(***************************************************************************)
(* Properties of validate's trial (specification SpecValidate).            *)
(***************************************************************************)
\* C25: when validate has returned, no child process started by its trial
\* execution is still running; when the 30 second timer wins the race, the
\* trial's child is terminated.
C25_NoChildLeft ==
    (last.op = "validate" /\ last.phase = "fulfilled") =>
        \A i \in 1..Len(calls) : calls[i].child = "running" => calls[i].killed

\* The executable validate(params) handed to accessSync before the trial
\* that call i is: the first token of the re-parsed getClaudeCommand string.
checkedExecutable(params, i) ==
    parseCommand(getClaudeCommand(params, calls[i].envBefore, rcConfig)).executable

\* C26: the executable whose existence and execute permission
\* validate(params) checks is the executable its trial execution spawns,
\* for every configuration and every params value.
C26_CheckedIsSpawned ==
    validatePending =>
        calls[last.call].executable = checkedExecutable(last.params, last.call)

(***************************************************************************)
(* Properties of the caller's messages (specification SpecGenerate).       *)
(***************************************************************************)
\* C27: generateObject leaves the caller's messages as they were: after the
\* call every message's content equals its content before the call.
C27_MessagesUntouched ==
    last.op = "generateObject" => last.messages = last.params.messages

(***************************************************************************)
(* Properties of alias substitution in the base command (specification     *)
(* SpecConfig).                                                            *)
(***************************************************************************)
\* args holds '--model' immediately followed by v.
hasModelPair(args, v) ==
    \E j \in 1..(Len(args) - 1) : args[j] = "--model" /\ args[j + 1] = v

\* C28: when the base command holds a complete '--model <v>' pair, the args
\* resolved after RC aliases were applied still hold '--model' immediately
\* followed by v, and the executable is the base command's: substitution
\* replaces neither the executable token nor the value of an existing flag.
C28_FlagValueKept ==
    (last.op = "getClaudeCommandParsed" /\ last.result # NoCommand) =>
        LET raw == parseCommand(last.base) IN
        /\ last.result.executable = raw.executable
        /\ \A k \in 1..(Len(raw.args) - 1) :
              raw.args[k] = "--model" => hasModelPair(last.result.args, raw.args[k + 1])

(***************************************************************************)
(* claude-config-loader.js: loadClaudeConfig.  A configuration is a        *)
(* function from its top-level keys (claude, taskMaster) to objects, each  *)
(* a function from keys to strings; a key that is present with the value   *)
(* undefined maps to Undefined.  NoFile stands for the null that           *)
(* loadClaudeConfig holds for a file that is missing or failed to load.    *)
(***************************************************************************)
\* mergeConfigs(target, source) on two objects of scalars: every key of the
\* source, in for-in order, is assigned to the result, whatever its value.
mergeScalars(target, source) ==
    [key \in DOMAIN target \cup DOMAIN source |->
        IF key \in DOMAIN source THEN source[key] ELSE target[key]]

\* One round of the outer loop of mergeConfigs: null configs are skipped,
\* object values are merged into result[key] || {}.
mergeOne(result, config) ==
    IF config = NoFile THEN result
    ELSE [key \in DOMAIN result \cup DOMAIN config |->
             IF key \in DOMAIN config
             THEN mergeScalars(IF key \in DOMAIN result THEN result[key] ELSE <<>>,
                               config[key])
             ELSE result[key]]

\* mergeConfigs(homeConfig, localConfig, envConfig)
mergeConfigs(homeConfig, localConfig, envConfig) ==
    mergeOne(mergeOne(mergeOne(<<>>, homeConfig), localConfig), envConfig)

\* The environment configuration: both keys are always present.
envConfigOf(e, ignoreEnv) ==
    IF ignoreEnv THEN NoFile
    ELSE [claude |-> [command |-> e["CLAUDE_CODE_COMMAND"],
                      model |-> e["CLAUDE_CODE_MODEL"]]]

\* loadClaudeConfig(options) without a profile.
loadClaudeConfig(homeConfig, localConfig, e, ignoreEnv) ==
    mergeConfigs(homeConfig, localConfig, envConfigOf(e, ignoreEnv))

\* What the home and the local configuration file may hold.
HomeConfigs ==
    {NoFile,
     [claude |-> [command |-> "/home/bin/claude", model |-> "haiku"]],
     [claude |-> [model |-> "sonnet"], taskMaster |-> [preferredProvider |-> "claude-code"]]}
LocalConfigs ==
    {NoFile,
     [claude |-> [command |-> "/work/bin/claude"]],
     [claude |-> [command |-> "/work/bin/claude", model |-> "opus"]]}

\* A call of loadClaudeConfig({ignoreEnv}) with the two files as they are
\* on disk.  The function keeps no state: one application per behaviour
\* shows all it does.
LoadClaudeConfig(homeConfig, localConfig, ignoreEnv) ==
    /\ last = NoCall
    /\ last' = [op |-> "loadClaudeConfig", home |-> homeConfig, local |-> localConfig,
                ignoreEnv |-> ignoreEnv,
                result |-> loadClaudeConfig(homeConfig, localConfig, env, ignoreEnv)]
    /\ UNCHANGED <<env, rcFile, sys, detectedCommand, probes, rcConfig, rcConfigLoaded, execVars>>

InitLoader ==
    /\ \E c \in EnvCommandValues, m \in EnvModelValues :
          env = [k \in EnvKeys |->
                    IF k = "CLAUDE_CODE_COMMAND" THEN c
                    ELSE IF k = "CLAUDE_CODE_MODEL" THEN m ELSE Undefined]
    /\ rcFile = NoFile
    /\ sys = SysNone
    /\ InitProvider
    /\ last = NoCall
    /\ InitExecutor

NextLoader ==
    \E homeConfig \in HomeConfigs, localConfig \in LocalConfigs, ignoreEnv \in BOOLEAN :
        LoadClaudeConfig(homeConfig, localConfig, ignoreEnv)

SpecLoader == InitLoader /\ [][NextLoader]_vars

\* config.claude[field], undefined when there is no such file, object or key.
claudeValue(config, field) ==
    IF config = NoFile THEN Undefined
    ELSE IF "claude" \notin DOMAIN config THEN Undefined
    ELSE Lookup(config["claude"], field)

\* Environment > Local > Home for one field.
byPriority(envValue, localConfig, homeConfig, field) ==
    IF envValue # Undefined THEN envValue
    ELSE IF claudeValue(localConfig, field) # Undefined THEN claudeValue(localConfig, field)
    ELSE claudeValue(homeConfig, field)

\* C29: loadClaudeConfig merges with priority Environment > Local > Home:
\* claude.command and claude.model are the environment variable's value when
\* the variable is set, otherwise the local file's value when it has one,
\* otherwise the home file's; an unset variable never removes or overrides
\* a value a file provides.
C29_MergePriority ==
    (last.op = "loadClaudeConfig" /\ ~last.ignoreEnv) =>
        /\ claudeValue(last.result, "command")
              = byPriority(env["CLAUDE_CODE_COMMAND"], last.local, last.home, "command")
        /\ claudeValue(last.result, "model")
              = byPriority(env["CLAUDE_CODE_MODEL"], last.local, last.home, "model")

(***************************************************************************)
(* clauderc-parser.js: parseAlias and findUnquotedChar.  Indices are those *)
(* of the source: the first character has index 0 and -1 means "none".     *)
(***************************************************************************)
\* Variant: the first occurrence of the character, quoted or not.
indexOfChar(str, char) == IndexOf(str, char, 1) - 1

\* One iteration of the loop of findUnquotedChar on the character of index
\* i; found is the value returned once it is not -1.
findStep(st, str, char, i) ==
    LET c == CharAt(str, i + 1) IN
    IF st.found # -1 THEN st
    ELSE IF st.escaped THEN [st EXCEPT !.escaped = FALSE]
    ELSE IF c = "\\" THEN [st EXCEPT !.escaped = TRUE]
    ELSE IF c = "'" /\ ~st.inDoubleQuote
    THEN [st EXCEPT !.inSingleQuote = ~st.inSingleQuote]
    ELSE IF c = "\"" /\ ~st.inSingleQuote
    THEN [st EXCEPT !.inDoubleQuote = ~st.inDoubleQuote]
    ELSE IF c = char /\ ~st.inSingleQuote /\ ~st.inDoubleQuote
    THEN [st EXCEPT !.found = i]
    ELSE st

\* The loop from index i on.
RECURSIVE findFrom(_, _, _, _)
findFrom(st, str, char, i) ==
    IF i >= Len(str) THEN st
    ELSE findFrom(findStep(st, str, char, i), str, char, i + 1)

findUnquotedChar(str, char) ==
    findFrom([inSingleQuote |-> FALSE, inDoubleQuote |-> FALSE, escaped |-> FALSE,
              found |-> -1], str, char, 0).found

\* parseAlias(line, aliases): the aliases object after the call.
parseAlias(line, aliases) ==
    LET aliasContent == Trim(SubSeq(line, 7, Len(line)))
        equalsIndex == findUnquotedChar(aliasContent, "=")
        name == Trim(SubSeq(aliasContent, 1, equalsIndex))
        value == unquote(Trim(SubSeq(aliasContent, equalsIndex + 2, Len(aliasContent))))
    IN IF equalsIndex = -1 THEN aliases
       ELSE IF name # "" /\ value # "" THEN (name :> value) @@ aliases
       ELSE aliases

\* parseClaudeRC on a file of one line: the line is trimmed, and goes to
\* parseAlias when it starts with the keyword and a space.
parseAliasLine(content) ==
    LET line == Trim(content) IN
    IF line = "" \/ StartsWith(line, "#") THEN <<>>
    ELSE IF StartsWith(line, "alias ") THEN parseAlias(line, <<>>)
    ELSE <<>>

MaxAliasPieces == 4

\* The text after the keyword, piece by piece: a name, the equals sign, a
\* quoted value with an equals sign in it, a quote, a backslash, a space.
AliasPieces == {"n", "=", "\"x=y\"", "'", "\\", " "}

\* parseClaudeRC reads the line 'alias ' + pieces.  The function keeps no
\* state: one application per behaviour shows all it does.
ParseAliasLine(pieces) ==
    /\ last = NoCall
    /\ last' = [op |-> "parseAlias", content |-> Trim(Concat(pieces)),
                aliases |-> parseAliasLine("alias " \o Concat(pieces))]
    /\ UNCHANGED <<env, rcFile, sys, detectedCommand, probes, rcConfig, rcConfigLoaded, execVars>>

NextAlias ==
    \E n \in 0..MaxAliasPieces : \E pieces \in [1..n -> AliasPieces] : ParseAliasLine(pieces)

SpecAlias == InitParse /\ [][NextAlias]_vars

(***************************************************************************)
(* Properties of parseAlias (specification SpecAlias).                     *)
(***************************************************************************)
\* The position (from 1) of the first '=' at or after position i that lies
\* outside single and double quotes, q being the quote that is open at i
\* (Null for none); 0 when there is none.  With escapes, a backslash takes
\* the character after it out of consideration, as a quote and as a '='.
RECURSIVE firstOutside(_, _, _, _)
firstOutside(s, i, q, escapes) ==
    IF i > Len(s) THEN 0
    ELSE LET c == CharAt(s, i) IN
         IF escapes /\ c = "\\" THEN firstOutside(s, i + 2, q, escapes)
         ELSE IF c \in {"'", "\""} /\ q = Null THEN firstOutside(s, i + 1, c, escapes)
         ELSE IF c = q THEN firstOutside(s, i + 1, Null, escapes)
         ELSE IF c = "=" /\ q = Null THEN i
         ELSE firstOutside(s, i + 1, q, escapes)

\* The text with one pair of matching quotes around it removed; a lone
\* quote character is taken as both ends of its pair and leaves nothing.
stripPair(v) ==
    IF Len(v) >= 1 /\ CharAt(v, 1) \in {"'", "\""} /\ CharAt(v, Len(v)) = CharAt(v, 1)
    THEN SubSeq(v, 2, Len(v) - 1)
    ELSE v

\* The alias a line with the given text after the keyword defines when it is
\* split at position p: nothing when there is no such position, or when the
\* name or the value is empty.
aliasSplitAt(content, p) ==
    LET name == Trim(SubSeq(content, 1, p - 1))
        value == stripPair(Trim(SubSeq(content, p + 1, Len(content))))
    IN IF p = 0 \/ name = "" \/ value = "" THEN <<>>
       ELSE name :> value

\* C30 as stated: the text after the keyword is split on the first '=' that
\* lies outside single and double quotes, NAME is the trimmed text before
\* it, and the value is everything after it with one matching pair of
\* surrounding quotes removed.
C30_FirstUnquotedEquals ==
    last.op = "parseAlias" =>
        last.aliases = aliasSplitAt(last.content, firstOutside(last.content, 1, Null, FALSE))

\* C30, amended: the split is on the first '=' that lies outside single and
\* double quotes and is not escaped by a backslash, a backslash escaping the
\* character after it (a quote included); NAME is the trimmed text before
\* it and the value is everything after it, trimmed, with one matching pair
\* of surrounding quotes removed, later '=' signs kept; nothing is stored
\* when the name or the value is empty or the value is a lone quote.
C30_FirstUnescapedEquals ==
    last.op = "parseAlias" =>
        last.aliases = aliasSplitAt(last.content, firstOutside(last.content, 1, Null, TRUE))

\* A quoted value with an equals sign in it, stored whole and without its
\* quotes.
C30_Witness ==
    /\ last.op = "parseAlias"
    /\ last.content = "n=\"x=y\""
    /\ last.aliases = ("n" :> "x=y")
====
